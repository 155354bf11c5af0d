------------------------------ MODULE MCSharing ------------------------------
(* One instance for TLC of the parts that decide what a session is and who may  *)
(* read it: share links, team workspaces, and the way from a tool's file to the *)
(* sessions of the archive.  A behaviour is one of them from its initial state  *)
(* on and the others stand still; they share no variable.                       *)
EXTENDS ShareLinks, TeamWorkspace, Transcripts, TLC

CONSTANTS Areas, l1, b1, b2, a, b, s1, w1, w2, c1, m1

VARIABLE area

(* Every session is captured by the one enrolled machine.                      *)
Laptop == [s \in Session |-> m1]

(* Three records where what follows a turn matters to it, and the two indexes  *)
(* of Cursor with a bubble each.                                               *)
Lengths == [f \in Formats |->
    IF f \in {"claude-code", "codex", "antigravity-cli", "copilot-chat-log", "chatgpt-export"} THEN 3
    ELSE IF f = "cursor" THEN 4 ELSE 2]

Interchangeable == Permutations({a, b}) \cup Permutations({w1, w2})

sharingVars == <<area, vars, workspaceVars, transcriptVars>>

SharingInit ==
    /\ area \in Areas
    /\ Init /\ WorkspaceInit
    /\ TranscriptsInit /\ (area = "transcripts" \/ format = "codex")

SharingNext ==
    /\ UNCHANGED area
    /\ \/ area = "links" /\ Next /\ UNCHANGED <<workspaceVars, transcriptVars>>
       \/ area = "teams" /\ WorkspaceNext /\ UNCHANGED <<vars, transcriptVars>>
       \/ area = "transcripts" /\ TranscriptsNext /\ UNCHANGED <<vars, workspaceVars>>

SharingSpec == SharingInit /\ [][SharingNext]_sharingVars
=============================================================================
