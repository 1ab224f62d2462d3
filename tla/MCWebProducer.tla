----------------------------- MODULE MCWebProducer -----------------------------
(* Three files of two chunks, one of which they share. *)
EXTENDS WebProducer, TLC

CONSTANTS t1, t2

Of2Tasks == Permutations({t1, t2})

SomeChunks == << <<1, 2>>, <<3, 2>> >>
===============================================================================
