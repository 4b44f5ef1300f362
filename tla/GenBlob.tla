------------------------------ MODULE GenBlob -------------------------------
(***************************************************************************)
(* genblob.c: the build tool that turns a file into a C array, the source  *)
(* file -o, and a declaration of it with its size, the header file -H.     *)
(* Every call of the C library may fail.  Bytes are counted, not compared. *)
(*                                                                         *)
(* The size is an unsigned int; files are far shorter than 4 GB here.      *)
(***************************************************************************)
EXTENDS Integers

CONSTANTS
  Buffer,       \* bytes read at once, 1024 in the source
  MaxLength     \* bound: the length of the input

VARIABLES
  pc,
  wanted,       \* the outputs given on the command line: "source", "header"
  length,       \* bytes in the input
  left,         \* of these, not read yet
  eof,          \* feof(in)
  rd,           \* bytes in buf
  size,
  emitted,      \* bytes in the array of the source file
  declared,     \* the size in the header file, -1 without one
  open,         \* files that are open
  ret,
  failed,       \* the calls that failed, for the properties
  again         \* the last read failed, for the properties

vars == <<pc, wanted, length, left, eof, rd, size, emitted, declared, open, ret, failed, again>>

Init ==
  /\ pc = "options"
  /\ wanted \in SUBSET {"source", "header"}
  /\ length \in 0..MaxLength /\ left = length
  /\ eof = FALSE /\ rd = 0 /\ size = 0
  /\ emitted = 0 /\ declared = -1
  /\ open = {} /\ ret = 1
  /\ failed = {} /\ again = FALSE

\* Control goes on from pc to next if the call succeeds, else to the error message.
CallOr(call, next) ==
  \/ pc' = next /\ UNCHANGED failed
  \/ pc' = "close" /\ failed' = failed \cup {call}

\* getopt; the usage text is printed if something else is given, or nothing to do.
Options ==
  /\ pc = "options"
  /\ \/ wanted # {} /\ pc' = "in" /\ UNCHANGED failed
     \/ pc' = "exited" /\ failed' = {"options"}
  /\ UNCHANGED <<wanted, length, left, eof, rd, size, emitted, declared, open, ret, again>>

\* The three calls of fopen; an output that is not wanted is passed by.
Open ==
  /\ pc \in {"in", "header", "source"}
  /\ LET next == [in |-> "header", header |-> "source", source |-> "begin"][pc]
     IN IF pc = "in" \/ pc \in wanted
        THEN /\ CallOr("fopen", next)
             /\ open' = IF pc' = next THEN open \cup {pc} ELSE open
        ELSE /\ pc' = next
             /\ UNCHANGED <<failed, open>>
  /\ UNCHANGED <<wanted, length, left, eof, rd, size, emitted, declared, ret, again>>

BeginArray ==
  /\ pc = "begin"
  /\ IF "source" \in wanted THEN CallOr("fprintf", "read") ELSE pc' = "read" /\ UNCHANGED failed
  /\ UNCHANGED <<wanted, length, left, eof, rd, size, emitted, declared, open, ret, again>>

(***************************************************************************)
(* fread.  The end of the file is noticed by a read that asks for more     *)
(* than there is.  An error gives less than was asked for, too, but rd is  *)
(* never negative: it is taken for data, and the loop goes on.             *)
(***************************************************************************)
Read ==
  /\ pc = "read" /\ ~ eof
  /\ \/ rd' = (IF left < Buffer THEN left ELSE Buffer) /\ eof' = (left < Buffer) /\ again' = FALSE
     \/ rd' \in {n \in 0..Buffer - 1 : n <= left} /\ eof' = FALSE /\ again' = TRUE
  /\ left' = left - rd'
  /\ pc' = "write"
  /\ UNCHANGED <<wanted, length, size, emitted, declared, open, ret, failed>>

\* Mutant: only what is written is counted.
Write_CountsOutput ==
  /\ pc = "write"
  /\ IF "source" \in wanted THEN CallOr("fprintf", "read") ELSE pc' = "read" /\ UNCHANGED failed
  /\ emitted' = IF "source" \in wanted THEN emitted + rd ELSE emitted
  /\ size' = emitted'
  /\ UNCHANGED <<wanted, length, left, eof, rd, declared, open, ret, again>>

\* The loop over buf, and the count of what was read.
Write ==
  /\ pc = "write"
  /\ IF "source" \in wanted THEN CallOr("fprintf", "read") ELSE pc' = "read" /\ UNCHANGED failed
  /\ emitted' = IF "source" \in wanted THEN emitted + rd ELSE emitted
  /\ size' = size + rd
  /\ UNCHANGED <<wanted, length, left, eof, rd, declared, open, ret, again>>

EndArray ==
  /\ pc = "read" /\ eof
  /\ IF "source" \in wanted THEN CallOr("fprintf", "declare") ELSE pc' = "declare" /\ UNCHANGED failed
  /\ UNCHANGED <<wanted, length, left, eof, rd, size, emitted, declared, open, ret, again>>

Declare ==
  /\ pc = "declare"
  /\ IF "header" \in wanted THEN CallOr("fprintf", "succeed") ELSE pc' = "succeed" /\ UNCHANGED failed
  /\ declared' = IF "header" \in wanted THEN size ELSE declared
  /\ UNCHANGED <<wanted, length, left, eof, rd, size, emitted, open, ret, again>>

Succeed ==
  /\ pc = "succeed"
  /\ ret' = 0 /\ pc' = "close"
  /\ UNCHANGED <<wanted, length, left, eof, rd, size, emitted, declared, open, failed, again>>

\* What fclose returns is not looked at: the last of the output may be lost.
Close ==
  /\ pc = "close"
  /\ open' = {} /\ pc' = "exited"
  /\ failed' \in {failed} \cup {failed \cup {"fclose"} : f \in open \ {"in"}}
  /\ UNCHANGED <<wanted, length, left, eof, rd, size, emitted, declared, ret, again>>

Next ==
  \/ Options \/ Open \/ BeginArray \/ Read \/ Write
  \/ EndArray \/ Declare \/ Succeed \/ Close

\* A sequential program that waits for nobody.
Spec == Init /\ [][Next]_vars /\ WF_vars(Next)

-----------------------------------------------------------------------------
(* Properties.                                                             *)

\* The outputs asked for are there, and say the same.
Complete ==
  /\ "source" \in wanted => emitted = length
  /\ "header" \in wanted => declared = length

(***************************************************************************)
(* The program ends, with every file closed.  It says so (exit code 0) if  *)
(* and only if all its work is done, but for a failure that only fclose    *)
(* sees.  If reading fails for ever it never ends; a read that fails for a *)
(* while loses nothing.                                                    *)
(***************************************************************************)
EndsAsReported ==
  \/ <>(/\ pc = "exited" /\ open = {}
        /\ ret = 0 <=> failed \subseteq {"fclose"}
        /\ ret = 0 => Complete)
  \/ []<>(pc # "exited" /\ again)
=============================================================================
