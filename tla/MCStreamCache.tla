---------------------------- MODULE MCStreamCache ----------------------------
(* One stream, whose reader seeks among several chunks.                    *)
EXTENDS StreamCache
NoReaders == {}
=============================================================================
