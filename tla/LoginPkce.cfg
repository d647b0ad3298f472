SPECIFICATION FairSpec
CONSTANTS
 None = None
 Terminals = {1,2}
 Principals = {"alice","bob","carol"}
 Complete = {"alice","bob"}
 Flows = {"device","passwordless","pkce"}
 Logins <- MCLogins
 FindsPids = TRUE
CHECK_DEADLOCK FALSE
PROPERTY LoginsEnd
