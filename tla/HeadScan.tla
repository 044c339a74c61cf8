------------------------------- MODULE HeadScan -------------------------------
(***************************************************************************)
(* The two readers of a request head in src/src/message/http.cpp, side by    *)
(* side over the same bytes: the search for its end in consumeHeaderSome,    *)
(* which counts line ends, and the parser that runs over the array once the  *)
(* end was found.  They have different ideas of a line end; this module is   *)
(* about where the two agree.                                               *)
(***************************************************************************)
EXTENDS HttpRequest

VARIABLES
  scan,    \* last_, numFound_ and the positions of consumeHeaderSome
  parser,  \* the parser over the bytes so far
  bare     \* history: some LF had no CR before it

scanVars == <<scan, parser, bare>>

ScanInit ==
  /\ scan = [last |-> "NUL", found |-> 0, at |-> 0, hit |-> 0]
  /\ parser = ParserStart
  /\ bare = FALSE

ReadByte(b) ==
  /\ scan' = ScanByte(scan, b)
  /\ parser' = ParseToken(parser, b)
  /\ bare' = (bare \/ (b = "LF" /\ scan.last # "CR"))

ScanNext == \E b \in Token : ReadByte(b)

ScanSpec == ScanInit /\ [][ScanNext]_scanVars

-------------------------------------------------------------------------------
ScanTypeOK ==
  /\ scan \in [last : Token, found : 0 .. 255, at : Nat, hit : Nat]
  /\ parser \in Parser
  /\ bare \in BOOLEAN

(* When the search has found the end of the head, the parser is through with *)
(* it one way or the other: it does not go on into the bytes behind, which   *)
(* are those of an older request or response.  The search can count four     *)
(* line ends where there is no blank line (CR CR LF CR LF CR); the parser    *)
(* has refused those bytes by then.                                         *)
FoundMeansDecided == HeadEnds(scan.found) => Decided(parser)

(* And the other way round: a head that the parser accepts has its end       *)
(* found at its last byte, if its lines end with CR LF.                      *)
AcceptedMeansFound ==
  parser.st = "DONE" /\ parser.used = scan.at /\ ~bare => HeadEnds(scan.found)

(* What the search can have counted where the parser stands.  Where it stands *)
(* behind the CR of a line end, and only there, the last byte was a CR.      *)
AfterCR == {"START_LF", "LINE_LF", "FIELD_LF", "END_LF"}
Counts(st) ==
  IF st \in {"LINE", "FIELDS"} THEN {0, 2}
  ELSE IF st = "END_LF" THEN {1, 3}
  ELSE IF st \in AfterCR THEN {1} ELSE {0}

InStep ==
  ~Decided(parser) =>
    /\ scan.found \in Counts(parser.st)
    /\ scan.last = "CR" <=> parser.st \in AfterCR
    /\ parser.used = scan.at
LinesCounted ==
  ~bare => /\ parser.st = "FIELDS" => scan.found = 2
           /\ parser.st = "END_LF" => scan.found = 3
           /\ parser.st = "DONE" /\ parser.used = scan.at => scan.found = 4

IInv ==
  /\ ScanTypeOK
  /\ parser.used <= scan.at
  /\ InStep
  /\ LinesCounted
===============================================================================
