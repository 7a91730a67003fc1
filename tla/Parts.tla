------------------------------- MODULE Parts --------------------------------
(***************************************************************************)
(* The parts of the library that run by themselves, side by side: the      *)
(* arena, getopt and the string functions, and the parts of the older      *)
(* tree.  They share no state, so a behaviour moves one of them, chosen at *)
(* the start, and leaves the others as they were initialised.              *)
(***************************************************************************)
EXTENDS Arena, Getopt, Strings, Que, TStack, PrintLock, Teatest, OldString

Parts == {"arena", "getopt", "strings", "que", "tstack", "print", "teatest", "old_string"}

VARIABLE part   \* which one moves

currentVars == <<arVars, goVars, strVars>>
oldVars     == <<queVars, tssVars, prVars, ttVars, osVars>>

vars == <<part, currentVars, oldVars>>

Init ==
    /\ part \in Parts
    /\ ArInit /\ QueInit /\ TssInit /\ PrintInit /\ TtInit
    /\ IF part = "getopt" THEN GoInit ELSE GoIdle
    /\ IF part = "strings" THEN StrInit ELSE StrIdle
    /\ IF part = "old_string" THEN OsInit ELSE OsIdle

ArenaPart   == part = "arena"   /\ UNCHANGED <<part, goVars, strVars, oldVars>>
GetoptPart  == part = "getopt"  /\ UNCHANGED <<part, arVars, strVars, oldVars>>
StringsPart == part = "strings" /\ UNCHANGED <<part, arVars, goVars, oldVars>>

OnlyOld == UNCHANGED <<part, currentVars>>

QuePart     == part = "que"     /\ OnlyOld /\ UNCHANGED <<tssVars, prVars, ttVars, osVars>>
TStackPart  == part = "tstack"  /\ OnlyOld /\ UNCHANGED <<queVars, prVars, ttVars, osVars>>
PrintPart   == part = "print"   /\ OnlyOld /\ UNCHANGED <<queVars, tssVars, ttVars, osVars>>
TeatestPart == part = "teatest" /\ OnlyOld /\ UNCHANGED <<queVars, tssVars, prVars, osVars>>
OldStringPart ==
    part = "old_string" /\ OnlyOld /\ UNCHANGED <<queVars, tssVars, prVars, ttVars>>

Next ==
    \/ ArenaPart /\ ArNext
    \/ GetoptPart /\ bt_getopt
    \/ StringsPart /\ StrNext
    \/ QuePart /\ QueNext
    \/ TStackPart /\ TssNext
    \/ PrintPart /\ PrintNext
    \/ TeatestPart /\ TtNext
    \/ OldStringPart /\ OsStep

(* The fairness of PrintSpec and of TtSpec, for the part that moves. *)
Spec ==
    /\ Init /\ [][Next]_vars
    /\ \A t \in Printers : WF_vars(PrintPart /\ PrintStep(t))
    /\ WF_vars(TeatestPart /\ TtParent) /\ WF_vars(TeatestPart /\ TtRuns)

(* All lines are printed: the threads do not wait for each other for ever. *)
PrintFinishes == part = "print" ~> AllPrinted
=============================================================================
