CONSTANTS
    v1 = v1
    v2 = v2
    Views = {v1, v2}
    Cooldown = 2
    Requests = {1, 2}
    Posts = {1}
    MaxData = 1
    MaxChanges = 2
SPECIFICATION Spec
PROPERTIES
    PageCatchesUp
    ButtonComesBack
