\* One Tomcat instance, two names that will do, two deploy requests.
CONSTANTS
  Instances = {i1}
  Names = {n1, n2}
  BadNames = {}
  MaxRequests = 2
  None = None
SPECIFICATION Spec
INVARIANT OverwriteIsConfirmed
