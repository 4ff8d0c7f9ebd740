CONSTANTS
    w1 = w1  w2 = w2  w3 = w3  c1 = c1   j1 = j1  j2 = j2
    Workers = {w1, w2}
    Clients = {c1}
    Owner = c1
    Jobs = {j1}
    Nobody = Nobody
SPECIFICATION SafeSpec
INVARIANT FreedMeansGone
