----------------------------- MODULE MCHttpClient -----------------------------
(* Two commits of one client and a download, at the same time.               *)
EXTENDS HttpClient
CONSTANTS c1, c2, d1

MCCommit   == {c1, c2}
MCDownload == {d1}
MCTimed    == {c1, c2}      \* the download has none
=============================================================================
