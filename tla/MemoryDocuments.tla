--------------------------- MODULE MemoryDocuments ---------------------------
(* One instruction file of one machine: the sweeps that read it (agent crate   *)
(* memoar-daemon, memory.rs), the document and revisions the archive keeps of  *)
(* it (server/src/memory, store/postgres/memory.ts), a person who reviews or   *)
(* deletes it, and the conversion that lets its text out.  A capture is one    *)
(* transaction that reads the row, reads it again to save, and updates the     *)
(* columns that differ from that second reading.                               *)
EXTENDS Naturals

CONSTANTS Note,       \* what the file may say
          Secret,     \* those the scanner finds something in
          Sweeper,    \* the watch, and `memoar sync` run beside it
          MaxFileEdits, MaxRemovals, MaxLostAnswers

ASSUME MemoryAssumption ==
    /\ Secret \subseteq Note /\ "none" \notin Note
    /\ "watch" \in Sweeper /\ Sweeper \subseteq {"watch", "once"}
    /\ MaxFileEdits \in Nat /\ MaxRemovals \in Nat /\ MaxLostAnswers \in Nat

None == [hash |-> "none", status |-> "none"]

VARIABLES
    ruleFile,   \* what the file says
    cache,      \* the text whose digest the watch keeps as sent
    sweep,      \* sweeper -> where its capture stands, and what it read
    document,   \* the row
    revisions,  \* the texts of its revisions
    convert,    \* a conversion: whether it passed the gate, and the hash it read
    out,        \* texts that left the archive
    reviewed,   \* texts a person cleared
    straddled,  \* a capture saved over a row that had come to another text or verdict
                \* since it read it, other than by a review alone
    unread,     \* texts that took the mark of a review meant for the text before them
    removed,    \* the document was deleted
    unheard,    \* the archive took its last text from the run beside the watch, or
                \* the watch never heard that it took it
    tally

memoryVars == <<ruleFile, cache, sweep, document, revisions, convert, out, reviewed, straddled, unread, removed, unheard, tally>>

Asleep == [at |-> "idle", text |-> "none", found |-> "none", seen |-> None]

MemoryInit ==
    /\ ruleFile \in Note
    /\ sweep = [p \in Sweeper |-> Asleep]
    /\ cache = "none"
    /\ document = None /\ revisions = {} /\ convert = "none" /\ out = {}
    /\ reviewed = {} /\ straddled = FALSE /\ unread = {} /\ removed = FALSE /\ unheard = FALSE
    /\ tally = [edits |-> 0, removals |-> 0, lost |-> 0]

IsDoing(p, place) == sweep[p].at = place

EditFile(t) ==
    /\ t # ruleFile /\ tally.edits < MaxFileEdits
    /\ ruleFile' = t /\ tally' = [tally EXCEPT !.edits = @ + 1]
    /\ UNCHANGED <<cache, sweep, document, revisions, convert, out, reviewed, straddled, unread, removed, unheard>>

(* run: a file whose digest was sent before is not sent again. *)
ReadFile(p) ==
    /\ IsDoing(p, "idle") /\ (p = "watch" => cache # ruleFile)
    /\ sweep' = [sweep EXCEPT ![p].at = "find", ![p].text = ruleFile]
    /\ UNCHANGED <<ruleFile, cache, document, revisions, convert, out, reviewed, straddled, unread, removed, unheard, tally>>

(* captureMemoryDocument: findOneBy, for whether the text is what it says and *)
(* whether that was reviewed. *)
FindDocument(p) ==
    /\ IsDoing(p, "find")
    /\ sweep' = [sweep EXCEPT ![p].at = "select",
          ![p].found = IF document.hash = sweep[p].text THEN document.status ELSE "other"]
    /\ UNCHANGED <<ruleFile, cache, document, revisions, convert, out, reviewed, straddled, unread, removed, unheard, tally>>

(* save reads the row again to see which columns differ. *)
SelectToSave(p) ==
    /\ IsDoing(p, "select")
    /\ sweep' = [sweep EXCEPT ![p].at = "save", ![p].seen = document]
    /\ UNCHANGED <<ruleFile, cache, document, revisions, convert, out, reviewed, straddled, unread, removed, unheard, tally>>

Scanned(t) == IF t \in Secret THEN "findings" ELSE "clear"

(* A completed review survives a capture that found the file unchanged. *)
ScanVerdict(c) == IF c.found = "reviewed" THEN "reviewed" ELSE Scanned(c.text)

Differing(c) ==
    [hash   |-> IF c.seen.hash = c.text THEN document.hash ELSE c.text,
     status |-> IF c.seen.status = ScanVerdict(c) THEN document.status ELSE ScanVerdict(c)]

(* The run beside the watch is over after its one pass. *)
Finishes(p) == sweep' = [sweep EXCEPT ![p] = [Asleep EXCEPT !.at = IF p = "watch" THEN "idle" ELSE "over"]]

(* Neither the insert of a row that has come nor the reading of one that has   *)
(* gone succeeds, and a transaction that fails leaves nothing. *)
SaveRefused(p) ==
    /\ IsDoing(p, "save")
    /\ (sweep[p].seen = None) # (document = None)
    /\ Finishes(p)
    /\ UNCHANGED <<ruleFile, cache, document, revisions, convert, out, reviewed, straddled, unread, removed, unheard, tally>>

(* A person cleared, since the save read it, the text that the row still holds. *)
ClearedMeanwhile(c) == c.seen # document /\ c.seen.hash = document.hash /\ document.status = "reviewed"

(* The verdict on the new text is the one the old text had when it was read:    *)
(* the column is not written, and the row keeps what the review put there.     *)
TakesTheMark(c) ==
    ClearedMeanwhile(c) /\ c.text # document.hash /\ c.seen.status = ScanVerdict(c)

SaveDocument(p) == LET c == sweep[p] IN
    /\ IsDoing(p, "save")
    /\ (c.seen = None) = (document = None)
    /\ document' = IF document = None THEN [hash |-> c.text, status |-> ScanVerdict(c)] ELSE Differing(c)
    /\ revisions' = IF c.found # "other" THEN revisions ELSE revisions \cup {c.text}
    /\ sweep' = [sweep EXCEPT ![p].at = "answered"]
    /\ straddled' = (straddled \/ (c.seen # document /\ ~ClearedMeanwhile(c)))
    /\ unread' = IF TakesTheMark(c) THEN unread \cup {c.text} ELSE unread
    /\ unheard' = (p # "watch")
    /\ UNCHANGED <<ruleFile, cache, convert, out, reviewed, removed, tally>>

(* Mutant: the digest kept is of the file as it is by now. *)
SaveAnsweredLater(p) ==
    /\ IsDoing(p, "answered")
    /\ cache' = IF p = "watch" THEN ruleFile ELSE cache
    /\ Finishes(p)
    /\ UNCHANGED <<ruleFile, document, revisions, convert, out, reviewed, straddled, unread, removed, unheard, tally>>

(* The digest is kept once the archive took the text. *)
SaveAnswered(p) ==
    /\ IsDoing(p, "answered")
    /\ cache' = IF p = "watch" THEN sweep[p].text ELSE cache
    /\ Finishes(p)
    /\ UNCHANGED <<ruleFile, document, revisions, convert, out, reviewed, straddled, unread, removed, unheard, tally>>

AnswerLost(p) ==
    /\ IsDoing(p, "answered") /\ tally.lost < MaxLostAnswers
    /\ tally' = [tally EXCEPT !.lost = @ + 1]
    /\ unheard' = (unheard \/ p = "watch")
    /\ Finishes(p)
    /\ UNCHANGED <<ruleFile, cache, document, revisions, convert, out, reviewed, straddled, unread, removed>>

SweepStep(p) ==
    \/ ReadFile(p) \/ FindDocument(p) \/ SelectToSave(p)
    \/ SaveRefused(p) \/ SaveDocument(p) \/ SaveAnswered(p)

(* Mutant: the review clears whatever the document holds by now. *)
ReviewAnything(t) ==
    /\ t \in revisions
    /\ document' = [document EXCEPT !.status = "reviewed"]
    /\ reviewed' = reviewed \cup {t}
    /\ UNCHANGED <<ruleFile, cache, sweep, revisions, convert, out, straddled, unread, removed, unheard, tally>>

(* reviewMemoryDocument: only the version that was read. *)
Review(t) ==
    /\ t \in revisions /\ document.hash = t
    /\ document' = [document EXCEPT !.status = "reviewed"]
    /\ reviewed' = reviewed \cup {t}
    /\ UNCHANGED <<ruleFile, cache, sweep, revisions, convert, out, straddled, unread, removed, unheard, tally>>

RemoveDocument ==
    /\ document # None /\ tally.removals < MaxRemovals
    /\ document' = None /\ revisions' = {} /\ removed' = TRUE
    /\ tally' = [tally EXCEPT !.removals = @ + 1]
    /\ UNCHANGED <<ruleFile, cache, sweep, convert, out, reviewed, straddled, unread, unheard>>

(* convert: the gate on the document as listed, and its revisions afterwards. *)
RequireReviewed ==
    /\ convert = "none" /\ document # None
    /\ document.status # "findings"
    /\ convert' = document.hash
    /\ UNCHANGED <<ruleFile, cache, sweep, document, revisions, out, reviewed, straddled, unread, removed, unheard, tally>>

(* currentText: the revision of the document's hash, the newest failing that. *)
CurrentText == IF convert \in revisions THEN {convert} ELSE revisions

ReadRevisions ==
    /\ convert # "none"
    /\ \E t \in CurrentText \cup (IF revisions = {} THEN {"none"} ELSE {}) : out' = out \cup {t}
    /\ convert' = "none"
    /\ UNCHANGED <<ruleFile, cache, sweep, document, revisions, reviewed, straddled, unread, removed, unheard, tally>>

MemoryNext ==
    \/ \E t \in Note : EditFile(t) \/ Review(t)
    \/ \E p \in Sweeper : SweepStep(p) \/ AnswerLost(p)
    \/ RemoveDocument \/ RequireReviewed \/ ReadRevisions

MemorySpec == MemoryInit /\ [][MemoryNext]_memoryVars

MemoryFairness == WF_memoryVars(SweepStep("watch"))

-----------------------------------------------------------------------------
(* A document says reviewed only of a text a person cleared, though captures   *)
(* come between ("clearing that one would mark text nobody has read as read",  *)
(* store/postgres/memory.ts).  The code keeps that of the review itself, whose *)
(* WHERE names the text; two ways are left to break it, both in the capture:   *)
(* captures that save over each other, and one capture saved over a review,    *)
(* where the new text has the verdict the old one had and takes its mark.      *)
ReviewedWasRead ==
    document.status = "reviewed" => document.hash \in reviewed \cup unread \/ straddled

(* "The gate, before a single byte is read out of the archive"                  *)
(* (memory-conversion.service.ts): a text the scanner found something in left  *)
(* only after a person had cleared it, or with the mark of a review it took    *)
(* from the text before it, unless captures saved over each other or the       *)
(* document was deleted and captured afresh behind the gate.                   *)
OutWasCleared ==
    out \cap Secret \subseteq reviewed \cup unread \/ straddled \/ removed

(* What the document says it holds, a revision holds, short of a deletion.     *)
HashHasItsRevision ==
    document # None => document.hash \in revisions \/ removed

(* What the watch has cached as sent is what the archive has (memory.rs), once *)
(* the answer is in and until a person deletes the document, unless the last   *)
(* text came from a run beside the watch, which keeps a cache of its own, or   *)
(* its answer was lost.                                                        *)
CachedIsHeld ==
    ~IsDoing("watch", "answered") =>
        cache = document.hash \/ document = None \/ unheard \/ straddled

(* What the archive says of a file and what it lets out of it (memory.rs,      *)
(* store/postgres/memory.ts, memory-conversion.service.ts).                    *)
MemoryHolds == ReviewedWasRead /\ OutWasCleared /\ HashHasItsRevision /\ CachedIsHeld

(* The archive ends up with what the file says (MemorySync, "left out of the   *)
(* cache, so the next sweep tries it again"), unless a person deleted the      *)
(* document.  What the watch does not hear of leaves its cache behind: after a *)
(* run beside it, or an answer that was lost, the file may go back to the text *)
(* in the cache, which is then not sent again, and the archive keeps the other.*)
MemoryCatchesUp ==
    IsDoing("watch", "find") ~>
        [](document.hash = ruleFile \/ removed \/ straddled \/ (cache = ruleFile /\ unheard))

-----------------------------------------------------------------------------
(* The inductive invariant: what was so when a capture looked is still so, or  *)
(* a deletion, a review or another capture came between.                      *)
Rule == [hash : Note, status : {"clear", "findings", "reviewed"}]

Capture == [at : {"idle", "find", "select", "save", "answered", "over"},
            text : Note \cup {"none"},
            found : {"none", "other", "clear", "findings", "reviewed"},
            seen : Rule \cup {None}]

MemoryTypeOK ==
    /\ ruleFile \in Note /\ cache \in Note \cup {"none"}
    /\ sweep \in [Sweeper -> Capture]
    /\ document \in Rule \cup {None}
    /\ revisions \subseteq Note /\ reviewed \subseteq Note /\ unread \subseteq Note
    /\ convert \in Note \cup {"none"} /\ out \subseteq Note \cup {"none"}
    /\ straddled \in BOOLEAN /\ removed \in BOOLEAN /\ unheard \in BOOLEAN
    /\ tally \in [edits : Nat, removals : Nat, lost : Nat]
    /\ \A p \in Sweeper : sweep[p].at \in {"find", "select", "save", "answered"} => sweep[p].text \in Note

(* What FindDocument read of the text a capture is about.                      *)
FoundInv ==
    \A p \in Sweeper : sweep[p].at \in {"select", "save"} =>
        /\ sweep[p].found = "reviewed" => sweep[p].text \in reviewed \cup unread \/ straddled
        /\ sweep[p].found # "other" => sweep[p].text \in revisions \/ removed

(* What the scanner found something in does not say clear.                     *)
ClearInv == document.status = "clear" => document.hash \notin Secret \/ straddled

(* What a conversion passed the gate with.                                     *)
GateInv ==
    convert # "none" =>
        /\ convert \in revisions \/ removed
        /\ convert \in Secret => convert \in reviewed \cup unread \/ straddled

SentInv ==
    IsDoing("watch", "answered") =>
        sweep["watch"].text = document.hash \/ document = None \/ unheard \/ straddled

MemoryInv == MemoryTypeOK /\ FoundInv /\ ClearInv /\ GateInv /\ SentInv /\ MemoryHolds
=============================================================================
