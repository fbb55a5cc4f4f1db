----------------------------- MODULE WhiteDiff ------------------------------
(***************************************************************************)
(* The comparison of an output with the correct output, line by line and   *)
(* up to whitespace (cms/grading/steps/whitediff.py).                      *)
(***************************************************************************)
EXTENDS Integers, Sequences, SequencesExt, FiniteSetsExt

CONSTANTS
    Letters,        \* what is not whitespace
    MaxFile         \* length of a file

(* Two of _WHITES; the end of a line is one of them.                       *)
Whites == {"space", "newline"}

Files == BoundedSeq(Letters \cup Whites, MaxFile)

VARIABLES
    original,   \* the two files
    rest,       \* what was not read of them yet
    verdict     \* "comparing", "equal" or "different"

diffVars == <<original, rest, verdict>>

(* readline: up to the first newline, and with it.                         *)
LineEnd(f) ==
    LET ends == {i \in DOMAIN f : f[i] = "newline"}
    IN  IF ends = {} THEN Len(f) ELSE Min(ends)

ReadLine(f) == SubSeq(f, 1, LineEnd(f))
AfterLine(f) == SubSeq(f, LineEnd(f) + 1, Len(f))

White(l, i) == l[i] \in Whites

(* Mutation: whitespace in front of a line counts.                         *)
CanonicalizeTrailing(l) ==
    LET kept == {i \in DOMAIN l : ~White(l, i) \/ (i < Len(l) /\ ~White(l, i + 1))}
        at == SetToSortSeq(kept, <)
    IN  [k \in DOMAIN at |-> IF White(l, at[k]) THEN "space" ELSE l[at[k]]]

(* One space between the words of a line, and none around them.            *)
Canonicalize(l) ==
    LET between(i) == /\ i < Len(l) /\ ~White(l, i + 1)
                      /\ \E j \in 1 .. (i - 1) : ~White(l, j)
        kept == {i \in DOMAIN l : ~White(l, i) \/ between(i)}
        at == SetToSortSeq(kept, <)
    IN  [k \in DOMAIN at |-> IF White(l, at[k]) THEN "space" ELSE l[at[k]]]

Blank(l) == \A i \in DOMAIN l : White(l, i)

(* One turn of the loop of _white_diff.                                    *)
Verdict(lout, lres) ==
    CASE lout = <<>> /\ lres = <<>> -> "equal"
      [] (lout = <<>>) # (lres = <<>>) ->
           IF Blank(lout) /\ Blank(lres) THEN "comparing" ELSE "different"
      [] OTHER -> IF Canonicalize(lout) = Canonicalize(lres) THEN "comparing" ELSE "different"

DiffInit ==
    /\ original \in Files \X Files
    /\ rest = original
    /\ verdict = "comparing"

CompareLine ==
    /\ verdict = "comparing"
    /\ verdict' = Verdict(ReadLine(rest[1]), ReadLine(rest[2]))
    /\ rest' = <<AfterLine(rest[1]), AfterLine(rest[2])>>
    /\ UNCHANGED original

DiffNext == CompareLine

-----------------------------------------------------------------------------
(* The letters of a file, by line, word in the line and place in the word. *)
Place(f, i) ==
    LET newlines == {j \in 1 .. (i - 1) : f[j] = "newline"}
        line == Max(newlines \cup {0})
        starts == {j \in (line + 1) .. i : ~White(f, j) /\ (j = line + 1 \/ White(f, j - 1))}
    IN  <<Cardinality(newlines), Cardinality(starts), i - Max(starts)>>

LettersOf(f) == {<<Place(f, i), f[i]>> : i \in {j \in DOMAIN f : ~White(f, j)}}

(* Two files are found equal just when they have the same words in the     *)
(* same lines, whatever the whitespace, the blank lines at the end and a   *)
(* missing last newline.                                                   *)
SameWords ==
    verdict # "comparing" =>
        (verdict = "equal" <=> LettersOf(original[1]) = LettersOf(original[2]))
=============================================================================
