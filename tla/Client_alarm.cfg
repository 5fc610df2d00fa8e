SPECIFICATION Spec
CONSTANTS
    s0 = s0
    s1 = s1
    s2 = s2
    s3 = s3
    ann = ann
    bob = bob
    ann1 = ann1
    ann2 = ann2
    bob1 = bob1
    None = None
    States <- MCStates
    Hashes <- MCHashes
    Hash <- MCHash
    Links <- HonestLinks
    Starts <- MCStarts
    Players = {ann, bob}
    Processes = {ann1, ann2, bob1}
    Owner <- MCOwner
    Commands <- MCCommands
    MaxLines <- MCMaxLines
INVARIANTS
    MismatchIsProof
