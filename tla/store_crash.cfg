SPECIFICATION StoreSpec
CONSTANTS
    Session = {p1, p2}
    Command <- MCCommand
    Starts <- MCStarts
    Nexts <- MCNexts
    Inode = {i1, i2, i3, i4}
    NoInode = NoInode
    NotJson = NotJson
SYMMETRY Inodes
PROPERTIES
    ImplementsCell
    GrantedOnce
CHECK_DEADLOCK FALSE
