----------------------------- MODULE ErrorCodes -----------------------------
(***************************************************************************)
(* The 32-bit words that carry an answer from a layer to the application.  *)
(* The twelve upper bits of a word (FS_ERROR_EXTRA_MASK) say what kind it   *)
(* is, so a word is a record: its kind, the error that the other bits name, *)
(* and the number a successful call returns.                               *)
(***************************************************************************)
EXTENDS Naturals

CONSTANTS
  Sign,     \* 2^31: a word from here on is negative as an FSError
  Misread   \* what such words look like that are numbers

FSErrorName ==
  {"OK", "END_OF_FILE", "END_OF_DIR", "CANCELLED", "NOT_FOUND", "ALREADY_EXISTS",
   "NOT_FILE", "NOT_DIR", "MAX_FILES", "ACCESS_ERROR", "PERMISSION_ERROR",
   "FILE_TOO_BIG", "MEDIA_ERROR", "INVALID_PARAM", "INVALID_BUFFER",
   "INVALID_FILEHANDLE", "INVALID_CLIENTHANDLE", "OUT_OF_RESOURCES", "BUSY",
   "unnamed"}   \* bits that are no error's
IOSErrorName == {"IOS_ACCESS", "IOS_INVALID", "IOS_QFULL"}

Extra == {"error", "parent", "noFallback", "real", "other"}   \* but for "none"

ASSUME MisreadAssumption ==
  /\ Sign \in Nat
  /\ Misread \subseteq [extra : Extra, name : FSErrorName, count : {0}]

Codes(names) == [extra : {"none"} \cup Extra, name : names, count : Nat]
FSError  == Codes(FSErrorName)
IOSError == Codes(FSErrorName \cup IOSErrorName)

Number(n)     == [extra |-> "none", name |-> "OK", count |-> n]
OK            == Number(0)
Error(e)      == [extra |-> "error", name |-> e, count |-> 0]
NoFallback(e) == [extra |-> "noFallback", name |-> e, count |-> 0]
FORCE_PARENT_LAYER  == [extra |-> "parent", name |-> "OK", count |-> 0]
FORCE_REAL_FUNCTION == [extra |-> "real", name |-> "OK", count |-> 0]

(* A uint32_t that is cast to FSError.  From Sign on the word is negative, and  *)
(* its bits are read as a kind and an error of whatever sort.                  *)
IsNotZero(n)  == n # 0   \* mutant: every number but 0 is taken for an error
IsNegative(n) == n >= Sign
Results(n) == IF IsNegative(n) THEN Misread ELSE {Number(n)}

-----------------------------------------------------------------------------
(* doForLayer, with what a layer returned.                                    *)

Masked(w) == IF w.extra = "none" THEN w ELSE [w EXCEPT !.extra = "error"]

NoExceptions == {}   \* mutant: the end of a file falls back like an error
NotAFailure == {"END_OF_FILE", "END_OF_DIR", "CANCELLED"}

FallsBack(w, fallbackOnError) ==
  /\ fallbackOnError
  /\ w.extra \notin {"none", "noFallback"} /\ w.name \notin NotAFailure

(* An answer of the FS API travels as an IOSError, in which three errors have  *)
(* names of their own; coreinit turns them back.                              *)
ToIOS(w) ==
  CASE w.name = "INVALID_BUFFER"       -> [w EXCEPT !.name = "IOS_ACCESS"]
    [] w.name = "INVALID_CLIENTHANDLE" -> [w EXCEPT !.name = "IOS_INVALID"]
    [] w.name = "BUSY"                 -> [w EXCEPT !.name = "IOS_QFULL"]
    [] OTHER                           -> w

__FSAShimDecodeIosErrorToFsaStatus(w) ==
  CASE w.name = "IOS_ACCESS"  -> [w EXCEPT !.name = "INVALID_BUFFER"]
    [] w.name = "IOS_INVALID" -> [w EXCEPT !.name = "INVALID_CLIENTHANDLE"]
    [] w.name = "IOS_QFULL"   -> [w EXCEPT !.name = "BUSY"]
    [] OTHER                  -> w

-----------------------------------------------------------------------------
(* processFSError.  A status is a name; the ones that have no counterpart in   *)
(* the FS API decode to FATAL_ERROR.                                          *)
fsaDecodeFsaStatusToFsStatus(w) ==
  CASE w.name \in {"END_OF_FILE", "END_OF_DIR"} -> "END"
    [] w.name = "MAX_FILES"      -> "MAX"
    [] w.name = "ALREADY_EXISTS" -> "EXISTS"
    [] w.name \in {"CANCELLED", "NOT_FOUND", "NOT_FILE", "NOT_DIR", "ACCESS_ERROR",
                   "PERMISSION_ERROR", "FILE_TOO_BIG", "MEDIA_ERROR"} -> w.name
    [] OTHER -> "FATAL_ERROR"

(* Statuses of which an application never is told.                            *)
Forced == {"MEDIA_NOT_READY", "MEDIA_ERROR", "CORRUPTED", "FATAL_ERROR"}

(* The status an FS call gets for word w; the mask {} is FS_ERROR_FLAG_NONE.   *)
processFSError(w, errorMask) ==
  LET result == IF w.extra = "none" THEN "OK" ELSE fsaDecodeFsaStatusToFsStatus(w)
  IN  IF result \in {"OK", "END", "CANCELLED"} THEN result
      ELSE IF result \in Forced \/ (errorMask # {} /\ result \notin errorMask)
           THEN "FATAL_ERROR" ELSE result
=============================================================================
