SPECIFICATION Spec
CONSTANTS
    login = login
    vault = vault
    sudo = sudo
    ssh = ssh
    Credentials = {login, vault}
    Services = {sudo, ssh}
    MAX_REVISION = 2
    MaxEdits = 3
SYMMETRY Interchangeable
INVARIANTS
    NoInventedPowers
    BothEndAgreeing
CHECK_DEADLOCK FALSE
