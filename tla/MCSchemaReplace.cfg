\* Applications use INSERT OR REPLACE.
SPECIFICATION Spec
CONSTANTS
    s1 = s1
    s2 = s2
    s3 = s3
    id1 = id1
    id2 = id2
    account = account
    Installers = {s1}
    Uninstallers = {}
    Ids = {id1, id2}
    Streams = {account}
    MaxPosition = 1
    MaxFailures = 1
    MaxRows = 2
    MaxUninstalls = 1
CHECK_DEADLOCK FALSE
PROPERTIES
    MessagesAppendOnly
