--------------------------- MODULE MCShareRounds ---------------------------
(* Small instances of ShareRounds for TLC.                                 *)
EXTENDS ShareRounds

Call(c, n) == [call |-> c, size |-> n]

(* The six calls of party_operation: commits, commit keys, RGSW, encoded   *)
(* commits, e-shares, value shares.  Neighbouring calls have different     *)
(* sizes, so that bytes read in the wrong call would show.                 *)
SsleCalls == << Call("share", 1), Call("share", 2), Call("share", 1),
                Call("share", 2), Call("to_p0", 1), Call("share", 2) >>

(* A shorter list for the runs with failures and more parties.             *)
ShortCalls == << Call("share", 2), Call("to_p0", 2), Call("share", 1) >>

=============================================================================
