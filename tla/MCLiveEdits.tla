------------------------------ MODULE MCLiveEdits ------------------------------
(* What the user's hands do on the page of live mode, and what becomes of the *)
(* source file it asks for, side by side: part says which.  Two elements that *)
(* share their classes, two sessions.                                         *)
EXTENDS LiveSource, TLC

CONSTANTS e1, e2, w1, w2, Box, Preview, Slips, MaxGestures, MaxSessions, MaxSteers
VARIABLES part, p, shots, sent, saving, dropping, steer, posts, due, up, count
Picker == INSTANCE LivePicker
hands == <<p, shots, sent, saving, dropping, steer, posts, due, up, count>>

ASSUME Picker!PickerAssumption
MCWord == (e1 :> w1) @@ (e2 :> w2)
MCSymmetry == Permutations(Sessions) \cup Permutations(Pages)
-----------------------------------------------------------------------------
FileIsSound == part = "file" => SourceSound
TheVariantIsPut == [][part = "file" => PutsTheVariant]_vars
PageIsSafe == part = "page" => Picker!PageIsSafe /\ Picker!RequestIsAboutItsElement
SteerEndsByItsOwn == [][part = "page" => Picker!SteerEnds]_hands

MCInit ==
  \/ part = "file" /\ Init
     /\ p = None /\ shots = None /\ sent = None /\ saving = None /\ dropping = None
     /\ steer = None /\ posts = None /\ due = None /\ up = None /\ count = None
  \/ part = "page" /\ Picker!Init
     /\ oddity = None /\ kind = None /\ lines = None /\ buffer = None /\ manifest = None /\ sess = None /\ edits = None
MCNext ==
  \/ part = "file" /\ Next /\ UNCHANGED <<part, hands>>
  \/ part = "page" /\ Picker!Next /\ UNCHANGED <<part, vars>>
MCSpec == MCInit /\ [][MCNext]_<<part, vars, hands>>
=============================================================================
