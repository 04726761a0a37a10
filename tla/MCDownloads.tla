----------------------------- MODULE MCDownloads -----------------------------
(* One load of one URLLoader.                                              *)
EXTENDS Downloads
OneLoader == {Loader}
NoReaders == {}
=============================================================================
