----------------------------- MODULE MCIputilScan -----------------------------
EXTENDS IputilScan

AllTakenBut == {(0 .. Space) \ {free} : free \in 0 .. Space}
MCRequests == {NoRequest, 5, ByteSize * ByteSize}
===============================================================================
