\* Two sessions, two keys, one chosen and one minted id.
CONSTANTS
    None = None
    Session = {s1, s2}
    Peer = {A, B}
    Chosen = {x}
    Minted = {y}
SPECIFICATION TeamSpec
SYMMETRY TeamSymmetry
INVARIANTS TeamTypeOK MemberVouched MembersRecorded AnnounceHonoured
PROPERTY AdminKept
