\* Two sessions that may name different admins for one team.
CONSTANTS
    None = None
    Session = {s1, s2}
    Peer = {A, B}
    Chosen = {x}
    Minted = {y}
SPECIFICATION TeamSpec
SYMMETRY TeamSymmetry
INVARIANT AdminSigned
