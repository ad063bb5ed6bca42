--------------------------- MODULE One2OneSpurious ---------------------------
(***************************************************************************)
(* One2One where pthread_cond_wait may also return unsignalled, as POSIX   *)
(* allows.  read and write do not wait in a loop.                          *)
(***************************************************************************)
EXTENDS One2One

SpuriousWake(t) ==
  /\ t \in waiting
  /\ waiting' = waiting \ {t}
  /\ UNCHANGED <<m_bEmpty, m_pBuff, rpc, wpc, wbuf, got>>

NextSpurious == Next \/ \E t \in Threads : SpuriousWake(t)

SpuriousSpec == Init /\ [][NextSpurious]_vars /\ Fairness

(* "The wait shall be waken up only by cond.signal from the writer": a     *)
(* read that is over has copied from the buffer of a writer that is still  *)
(* in write, and not from the null address or from a buffer of a write     *)
(* that has returned.                                                      *)
ReadMeetsWriter == [][rpc = "wait" /\ rpc' = "return" => wpc = "wait"]_vars
=============================================================================
