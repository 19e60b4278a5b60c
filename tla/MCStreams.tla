------------------------------- MODULE MCStreams -------------------------------
(* The streams of the library for TLC: a cipher stream that is written to and  *)
(* streams that the image prober reads.  The two share no state, so it is      *)
(* enough that one of them moves while the other has not been used.            *)
EXTENDS MCCipherStream, MCImageProber

StreamsInit == Init /\ ProbeInit

StreamsNext ==
    \/ ProbeInit /\ Next /\ UNCHANGED probeVars
    \/ Init /\ ProbeNext /\ UNCHANGED vars

StreamsSpec ==
    /\ StreamsInit
    /\ [][StreamsNext]_<<vars, probeVars>>
    /\ WF_<<vars, probeVars>>(Extract /\ UNCHANGED vars)
================================================================================
