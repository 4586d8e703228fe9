------------------------------- MODULE Storage -------------------------------
(***************************************************************************)
(* The file system that a layer redirects to, as far as read(), write(),    *)
(* ftruncate() and open() of newlib show it: a name is nothing, a directory *)
(* or a file, and a file is a sequence of bytes.                            *)
(***************************************************************************)
EXTENDS Naturals, Sequences

Nothing       == [type |-> "none", data |-> <<>>]
Directory     == [type |-> "dir", data |-> <<>>]
FileOf(bytes) == [type |-> "file", data |-> bytes]

(* What a file is after a write of bytes at an offset: a hole reads as zeros.  *)
Overlay(data, at, bytes) ==
  IF bytes = <<>> THEN data
  ELSE [i \in 1 .. (IF Len(data) > at + Len(bytes) THEN Len(data) ELSE at + Len(bytes)) |->
          IF i \in at + 1 .. at + Len(bytes) THEN bytes[i - at]
          ELSE IF i <= Len(data) THEN data[i] ELSE 0]

Resized(data, n) == [i \in 1 .. n |-> IF i <= Len(data) THEN data[i] ELSE 0]

(* The access modes of fopen; "rb" and "wb" are "r" and "w".                   *)
Reads     == {"r", "r+", "w+", "a+"}
Writes    == {"r+", "w", "w+", "a", "a+"}
Appends   == {"a", "a+"}
Creates   == {"w", "w+", "a", "a+"}
Truncates == {"w", "w+"}

(* What open() makes of an entry, when it succeeds.                            *)
Opened(entry, mode) == IF entry.type = "none" \/ mode \in Truncates
                       THEN FileOf(<<>>) ELSE entry
=============================================================================
