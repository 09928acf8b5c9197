\* Loading, validating and using families of configurations, with every
\* environment, while the password file changes.
SPECIFICATION Spec
CONSTANTS
    i1 = i1
    i2 = i2
    NoInode = NoInode
    Inode = {i1, i2}
    Char <- MCChar
    Inputs <- MCInputs
    Contents <- MCContents
    MaxCredentialFileSize = 3
    MaxChanges = 2
    Device <- MCDevice
    Lines <- MCLines
    ParseURL <- MCParseURL
    ParseDuration <- MCParseDuration
    CleanPath <- MCCleanPath
    Program <- MCProgram
    Directory <- MCDirectory
    Certificates <- MCCertificates
    KeyPair <- MCKeyPair
    ServerName <- MCServerName
SYMMETRY Inodes
INVARIANTS
    TypeOK
    AcceptedIsUsable
    CredentialChecked
    InsertedVerbatim
    LiteralsExpressible
CHECK_DEADLOCK FALSE
