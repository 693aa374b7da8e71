--------------------------- MODULE MCBeePersistent ---------------------------
(* BeePersistent with two servers, two logins and two suffixes. *)
EXTENDS BeePersistent, TLC

CONSTANTS local, remote, guest, admin, red, blue, o1, o2, c1, c2, c3, s1, s2, s3

MCObjects == {o1, o2}
MCConns == {c1, c2, c3}
MCStreams == {s1, s2, s3}
MCParams ==
    {[server |-> local, login |-> guest, suffix |-> red],
     [server |-> local, login |-> guest, suffix |-> blue],
     [server |-> local, login |-> admin, suffix |-> None],
     [server |-> remote, login |-> guest, suffix |-> None]}
MCAnySetting == BOOLEAN
MCOn == {TRUE}

(* Handles and addresses are interchangeable. *)
MCSymmetry ==
    Permutations(MCObjects) \cup Permutations(MCConns) \cup Permutations(MCStreams)
=============================================================================
