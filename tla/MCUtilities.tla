---------------------------- MODULE MCUtilities ----------------------------
(***************************************************************************)
(* One instance for the small parts around the generator: Bitset, ListSort,*)
(* GenBlob and Demo.  They have nothing to do with each other, so a        *)
(* behaviour is one of one part, with the others at rest.                  *)
(***************************************************************************)
EXTENDS Bitset

VARIABLES
  part,                                                               \* the part that runs
  list, sorting,                                                      \* ListSort
  at, wanted, length, left, eof, rd, size, emitted, declared, open,
  exitcode, failed, again,                                            \* GenBlob
  line, pos, done, id, pc, said                                       \* Demo

sortvars == <<list, sorting>>
blobvars == <<at, wanted, length, left, eof, rd, size, emitted, declared, open, exitcode, failed, again>>
demovars == <<line, pos, done, id, pc, said>>

\* Two words; 128 and 200 are beyond them.  No bit at or above the sign of int.
SomeNumbers == {0, 1, 30, 64, 94, 128, 200}
SafeNumbers == (0..30) \cup (64..94) \cup {128, 200}

S == INSTANCE ListSort WITH Keys <- 1..4, MaxLength <- 7, pc <- sorting
B == INSTANCE GenBlob WITH Buffer <- 2, MaxLength <- 5, pc <- at, ret <- exitcode
D == INSTANCE Demo WITH MaxLine <- 4


UtilitiesInit ==
  /\ part \in {"set", "sort", "blob", "demo"}
  /\ Init
  /\ IF part = "sort" THEN S!Init ELSE list = << >> /\ sorting = "unsorted"
  /\ B!Init
  /\ part # "blob" => wanted = {} /\ length = 0
  /\ D!Init
  /\ part # "demo" => line = <<"\n">>

UtilitiesNext ==
  /\ UNCHANGED part
  /\ \/ part = "set" /\ UNCHANGED <<sortvars, blobvars, demovars>> /\ Next
     \/ part = "sort" /\ UNCHANGED <<vars, blobvars, demovars>> /\ S!Next
     \/ part = "blob" /\ UNCHANGED <<vars, sortvars, demovars>> /\ B!Next
     \/ part = "demo" /\ UNCHANGED <<vars, sortvars, blobvars>> /\ D!Next

\* Fair where the part is.
UtilitiesSpec ==
  /\ UtilitiesInit /\ [][UtilitiesNext]_<<part, vars, sortvars, blobvars, demovars>>
  /\ WF_blobvars(part = "blob" /\ UtilitiesNext) /\ WF_demovars(part = "demo" /\ UtilitiesNext)

\* ListSort's property: lists are sorted and lose nothing.
SortsAscending == S!SortsAscending

\* GenBlob's property: the program ends, and its exit code tells the truth.
EndsAsReported == part = "blob" => B!EndsAsReported

\* Demo's property: every line is done with, and not read beyond its end.
LineEnds == part = "demo" => D!LineEnds
=============================================================================
