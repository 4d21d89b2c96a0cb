------------------------------- MODULE MCFraming -------------------------------
(* Constants of the model-checking run of Framing.                          *)
EXTENDS Framing

(* A heartbeat, bodies, and one in which a header seems to begin.           *)
SomeBodies == {<<>>, <<0, 1>>, <<P, B>>}

(* Quiet noise, one as long as the largest packet that can be seen in what  *)
(* precedes it, and noise that is a header or the start of one.             *)
SomeNoise == {<<1, B>>, <<0, B, 0, B, 0, B, 0>>}
               \cup {<<P, B, Version, n>> : n \in {0, 2, MaxByte}}
               \cup {<<P>>, <<P, B>>, <<P, B, Version>>}
=============================================================================
