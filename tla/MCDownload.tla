---------------------------- MODULE MCDownload -----------------------------
(* Small instances of Download for TLC. *)
EXTENDS Download, TLC

CONSTANTS f1, i1, i2, d1, d2, v1, r1

MCBook == <<f1>>
MCFileOf == [c \in Fetcher |-> f1]
=============================================================================
