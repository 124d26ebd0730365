---------------------------- MODULE MCUploadPage ----------------------------
(* UploadPage on a small instance: one file that is accepted, in two ways  *)
(* of naming its type, one of a type that is not, one over the limit and   *)
(* one over that of the body.                                              *)
EXTENDS UploadPage

CONSTANTS w1, p1, p2

SentFile(content, declared, sniffed, size) ==
    [content |-> content, declared |-> declared, sniffed |-> sniffed, size |-> size]

MCFiles ==
    {SentFile("invoice", "application/pdf", "application/pdf", 2),
     SentFile("invoice", "", "application/pdf", 2),
     SentFile("notes", "", "text/plain", 1),
     SentFile("scan", "image/png", "image/png", 3),
     SentFile("film", "image/png", "image/png", 4)}
=============================================================================
