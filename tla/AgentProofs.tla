------------------------------ MODULE AgentProofs ------------------------------
(***************************************************************************)
(* Theorems about the parts of the agent that work beside each other on one*)
(* machine, for every set of processes and every bound: the credentials of *)
(* a sweep (MachineToken), the instruction files it sends                  *)
(* (MemoryDocuments), the launchers that install it (Launcher), the bundles*)
(* it links (Materializer), the watch that feeds its queue (CaptureLoop).  *)
(***************************************************************************)
EXTENDS MachineToken, MemoryDocuments, Launcher, Materializer, CaptureLoop, TLAPS

-----------------------------------------------------------------------------
(* MachineToken.                                                            *)

USE DEF tokenVars, memoryVars, launcherVars

LEMMA TokenInitInv == TokenInit => TokenInv
  BY TokenAssumption
  DEF TokenInit, TokenInv, TokenTypeOK, UploadFresh, OfThisSweep, DiedOfTheClock,
      RevokedIsReplaced, Token, NoToken, Quiet, Transport

(* What is sent is the token that is held, if it can be used, or a new one. *)
LEMMA SendMeans ==
  ASSUME TokenTypeOK, NEW t \in Transport, Send(t)
  PROVE  \E token \in Token :
            /\ Sends(t, token)
            /\ \/ token = held[t] /\ Usable(t)
               \/ token.made = archiveClock /\ token.after = revocations /\ ~Usable(t)
<1>1. PICK token \in (IF Usable(t) THEN {held[t]} ELSE Minted) : Sends(t, token)
  BY DEF Send
<1>2. CASE Usable(t)
  BY <1>1, <1>2 DEF TokenTypeOK
<1>3. CASE ~Usable(t)
  BY <1>1, <1>3 DEF TokenTypeOK, Minted, Token
<1>4. QED
  BY <1>2, <1>3

LEMMA TokenNextInv == TokenInv /\ [TokenNext]_tokenVars => TokenInv'
<1> SUFFICES ASSUME TokenInv, [TokenNext]_tokenVars PROVE TokenInv'
  OBVIOUS
<1> USE TokenAssumption
    DEF TokenInv, TokenTypeOK, UploadFresh, OfThisSweep, DiedOfTheClock, RevokedIsReplaced
<1>1. CASE TimePasses
  BY <1>1 DEF TimePasses, Quiet
<1>2. CASE StartSweep
  <2>1. PICK token \in Minted : held' = [t \in Transport |-> token]
    BY <1>2 DEF StartSweep
  <2>2. token \in Token /\ token.after = revocations
    BY <2>1 DEF Minted, Token
  <2>3. QED
    BY <1>2, <2>1, <2>2 DEF StartSweep, Quiet
<1>3. CASE Authenticate
  <2>1. upload.by # "none" /\ upload' = Quiet
    BY <1>3 DEF Authenticate
  <2>2. UNCHANGED <<archiveClock, ahead, held, round, revocations>>
    BY <1>3 DEF Authenticate
  <2>3. CASE upload.token.after < revocations /\ refused' = "revoked"
    BY <2>1, <2>2, <2>3 DEF Quiet, NoToken, Token
  <2>4. CASE Expired(upload.token.made) /\ refused' = "expired"
    <3>1. upload.token.made + Lifetime <= upload.since + Deadline
      BY <2>1, <2>4 DEF Expired, Token
    <3>2. Deadline - ahead > Margin
      BY <2>1, <3>1 DEF Token
    <3>3. QED
      BY <2>1, <2>2, <2>4, <3>2 DEF Quiet, NoToken, Token
  <2>5. CASE refused' = "no"
    BY <2>1, <2>2, <2>5 DEF Quiet, NoToken, Token
  <2>6. QED
    BY <1>3, <2>3, <2>4, <2>5 DEF Authenticate
<1>4. CASE SendFails
  BY <1>4 DEF SendFails, Quiet, NoToken, Token
<1>5. CASE RevokeHeld
  BY <1>5 DEF RevokeHeld, Token
<1>6. ASSUME NEW t \in Transport, Send(t) PROVE TokenInv'
  <2>1. PICK token \in Token :
            /\ Sends(t, token)
            /\ \/ token = held[t] /\ Usable(t)
               \/ token.made = archiveClock /\ token.after = revocations /\ ~Usable(t)
    BY <1>6, SendMeans
  <2>2. t \in {"transcripts", "memory"} /\ t # "none"
    BY DEF Transport
  <2>3. token.after >= round.after
    BY <2>1
  <2>4. \/ token.made = archiveClock
        \/ token.made + Lifetime - (archiveClock + ahead) > Margin
    BY <2>1 DEF Usable, Remaining
  <2>5. UploadFresh'
    BY <1>6, <2>1, <2>4 DEF Sends, Send
  <2>6. TokenTypeOK'
    <3>1. held' \in [Transport -> Token]
      BY <1>6, <2>1 DEF Sends, Send
    <3>2. upload' \in [by : Transport \cup {"none"}, token : Token, since : Nat] /\ upload'.by # "none"
      BY <1>6, <2>1, <2>2 DEF Sends, Send
    <3>3. QED
      BY <1>6, <3>1, <3>2 DEF Send
  <2>7. QED
    BY <1>6, <2>1, <2>3, <2>5, <2>6 DEF Sends, Send
<1>7. ASSUME NEW t \in Transport, MintFails(t) PROVE TokenInv'
  BY <1>7 DEF MintFails
<1>8. QED
  BY <1>1, <1>2, <1>3, <1>4, <1>5, <1>6, <1>7 DEF TokenNext

(* What an agent holds when it replaces a token.                            *)
LEMMA ReplacedIsOld ==
  ASSUME TokenInv, TokenNext, NEW t \in Transport, held'[t] # held[t], round' = round, held[t].readable
  PROVE  archiveClock > held[t].made
<1> USE DEF TokenInv, TokenTypeOK
<1>1. ~StartSweep
  BY DEF StartSweep
<1>2. PICK u \in Transport : Send(u)
  BY <1>1 DEF TokenNext, TimePasses, Authenticate, SendFails, RevokeHeld, MintFails
<1>3. u = t /\ ~Usable(t)
  BY <1>2, SendMeans DEF Sends
<1>4. held[t].made + Lifetime - (archiveClock + ahead) <= Margin
  BY <1>3, TokenAssumption DEF Usable, Remaining, Token
<1>5. QED
  BY <1>4, TokenAssumption DEF Token

(* A credential is refused for a revocation or for an expiry the agent's    *)
(* clock explains, the next sweep makes good a revocation, and no token is  *)
(* replaced the moment it is made (TokensHold).                             *)
THEOREM TokensAreKept == TokenSpec => TokensHold
<1>1. TokenSpec => []TokenInv
  BY TokenInitInv, TokenNextInv, PTL DEF TokenSpec
<1>2. TokenInv => DiedOfTheClock /\ RevokedIsReplaced
  BY DEF TokenInv
<1>3. TokenInv /\ [TokenNext]_tokenVars =>
        [\A t \in Transport :
           (held'[t] # held[t] /\ round' = round /\ held[t].readable)
              => archiveClock > held[t].made]_tokenVars
  BY ReplacedIsOld
<1>4. QED
  BY <1>1, <1>2, <1>3, PTL DEF TokenSpec, TokensHold, BornUsable

-----------------------------------------------------------------------------
(* MemoryDocuments.                                                         *)

LEMMA MemoryInitInv == MemoryInit => MemoryInv
<1> SUFFICES ASSUME MemoryInit PROVE MemoryInv
  OBVIOUS
<1>1. MemoryTypeOK
  BY DEF MemoryInit, MemoryTypeOK, Asleep, None, Capture
<1>2. QED
  BY <1>1 DEF MemoryInit, MemoryInv, FoundInv, ClearInv, GateInv, SentInv, MemoryHolds,
      ReviewedWasRead, OutWasCleared, HashHasItsRevision, CachedIsHeld, Asleep, None, IsDoing

(* A document says something, and no document says nothing.                 *)
LEMMA RuleIsSomething ==
  /\ None \notin Rule
  /\ None.hash = "none" /\ None.status = "none" /\ "none" \notin Note
  BY MemoryAssumption DEF None, Rule

(* The sweep's record after a step of its own, and of others.               *)
LEMMA FinishedSweep ==
  ASSUME MemoryTypeOK, NEW p \in Sweeper, Finishes(p)
  PROVE  /\ sweep'[p].at \in {"idle", "over"}
         /\ \A q \in Sweeper \ {p} : sweep'[q] = sweep[q]
         /\ sweep' \in [Sweeper -> Capture]
  BY DEF MemoryTypeOK, Finishes, Asleep, Capture

(* A capture that ends leaves what the others know.                         *)
LEMMA FinishKeepsFound ==
  ASSUME MemoryTypeOK, FoundInv, NEW p \in Sweeper, Finishes(p),
         UNCHANGED <<reviewed, unread, revisions>>, straddled' = straddled, removed' = removed
  PROVE  FoundInv'
  BY FinishedSweep DEF FoundInv

LEMMA SaveDocumentInv ==
  ASSUME MemoryInv, NEW p \in Sweeper, SaveDocument(p)
  PROVE  MemoryInv'
<1> USE DEF MemoryInv, IsDoing
<1> DEFINE c == sweep[p]
<1>1. /\ c.at = "save" /\ c.text \in Note /\ c.found \in {"none", "other", "clear", "findings", "reviewed"}
      /\ c.seen \in Rule \cup {None}
      /\ (c.seen = None) <=> (document = None)
      /\ document \in Rule \cup {None}
  BY DEF SaveDocument, MemoryTypeOK, Capture
<1>2. /\ sweep' = [sweep EXCEPT ![p].at = "answered"]
      /\ straddled' = (straddled \/ (c.seen # document /\ ~ClearedMeanwhile(c)))
      /\ unread' = IF TakesTheMark(c) THEN unread \cup {c.text} ELSE unread
      /\ unheard' = (p # "watch")
      /\ revisions' = IF c.found # "other" THEN revisions ELSE revisions \cup {c.text}
      /\ document' = IF document = None THEN [hash |-> c.text, status |-> ScanVerdict(c)] ELSE Differing(c)
      /\ UNCHANGED <<ruleFile, cache, convert, out, reviewed, removed, tally>>
  BY DEF SaveDocument
<1>3. ScanVerdict(c) \in {"clear", "findings", "reviewed"}
      /\ (ScanVerdict(c) = "reviewed" => c.found = "reviewed")
      /\ (ScanVerdict(c) = "clear" => c.text \notin Secret)
  BY DEF ScanVerdict, Scanned
<1>4. /\ sweep'[p].at = "answered" /\ sweep'[p].text = c.text
      /\ \A q \in Sweeper \ {p} : sweep'[q] = sweep[q]
  BY <1>2 DEF MemoryTypeOK, Capture
<1>5. document' \in Rule /\ document' # None
  <2>1. CASE document = None
    BY <1>1, <1>2, <1>3, <2>1, RuleIsSomething DEF Rule
  <2>2. CASE document # None
    BY <1>1, <1>2, <1>3, <2>2, RuleIsSomething DEF Rule, Differing
  <2>3. QED
    BY <2>1, <2>2
<1>6. ~straddled' => /\ document'.hash = c.text
                     /\ document'.status # ScanVerdict(c) =>
                           document'.status = "reviewed" /\ (c.text = document.hash \/ c.text \in unread')
  <2>1. CASE document = None
    BY <1>1, <1>2, <2>1
  <2>2. CASE document # None /\ c.seen = document
    BY <1>1, <1>2, <2>2, RuleIsSomething DEF Rule, Differing
  <2>3. CASE document # None /\ ClearedMeanwhile(c)
    <3>1. /\ c.seen.hash = document.hash /\ document.status = "reviewed"
          /\ document' = Differing(c)
      BY <1>2, <2>3 DEF ClearedMeanwhile
    <3>2. /\ document'.hash = c.text
          /\ document'.status = IF c.seen.status = ScanVerdict(c) THEN document.status ELSE ScanVerdict(c)
      BY <3>1 DEF Differing
    <3>3. c.text = document.hash \/ c.seen.status # ScanVerdict(c) \/ c.text \in unread'
      BY <1>2, <2>3 DEF TakesTheMark
    <3>4. QED
      BY <3>1, <3>2, <3>3
  <2>4. QED
    BY <1>2, <2>1, <2>2, <2>3
<1>7. document'.hash \in {c.text, document.hash} /\ (document = None => document'.hash = c.text)
  BY <1>1, <1>2, RuleIsSomething DEF Rule, Differing
<1>8. MemoryTypeOK'
  <2>1. sweep' \in [Sweeper -> Capture]
    BY <1>2 DEF MemoryTypeOK, Capture
  <2>2. straddled' \in BOOLEAN /\ unheard' \in BOOLEAN
    BY <1>2 DEF MemoryTypeOK
  <2>3. unread' \subseteq Note /\ unread \subseteq unread'
    BY <1>1, <1>2 DEF MemoryTypeOK
  <2>4. QED
    BY <1>1, <1>2, <1>4, <1>5, <2>1, <2>2, <2>3 DEF MemoryTypeOK
<1>9. unread \subseteq unread' /\ revisions \subseteq revisions' /\ (c.text \in revisions' \/ removed)
  BY <1>1, <1>2 DEF FoundInv
<1>10. FoundInv'
  <2>1. UNCHANGED <<reviewed, removed>> /\ (straddled => straddled')
    BY <1>2
  <2>2. QED
    BY <1>4, <1>9, <2>1 DEF FoundInv
<1>11. ClearInv' /\ ReviewedWasRead'
  <2>1. UNCHANGED reviewed /\ (straddled => straddled')
    BY <1>2
  <2>2. document'.status = "clear" /\ ~straddled' => document'.hash \notin Secret
    BY <1>3, <1>6
  <2>3. c.found = "reviewed" => c.text \in reviewed \cup unread \/ straddled
    BY <1>1 DEF FoundInv
  <2>4. ~straddled' /\ document'.status = "reviewed" /\ document'.status # ScanVerdict(c) /\ c.text = document.hash
          => document.hash \in reviewed \cup unread \/ document = None \/ c.text \in reviewed \cup unread
    <3>1. SUFFICES ASSUME ~straddled', document # None, document'.status = "reviewed",
                          document'.status # ScanVerdict(c), c.text = document.hash
                   PROVE  document.status = "reviewed"
      BY <1>2 DEF MemoryHolds, ReviewedWasRead
    <3>2. QED
      BY <1>2, <3>1 DEF Differing
  <2>5. document = None /\ ~straddled' => document'.status = ScanVerdict(c)
    BY <1>2
  <2>6. ReviewedWasRead'
    <3>1. ~straddled' => document'.hash = c.text
      BY <1>6
    <3>2. ASSUME document'.status = "reviewed", ~straddled'
          PROVE  c.text \in reviewed \cup unread'
      <4>1. CASE document'.status = ScanVerdict(c)
        BY <1>3, <1>9, <2>1, <2>3, <3>2, <4>1
      <4>2. CASE document'.status # ScanVerdict(c)
        BY <1>6, <1>9, <2>4, <2>5, <3>2, <4>2
      <4>3. QED
        BY <4>1, <4>2
    <3>3. QED
      BY ONLY <2>1, <3>1, <3>2 DEF ReviewedWasRead
  <2>7. QED
    BY <2>2, <2>6 DEF ClearInv
<1>12. GateInv' /\ OutWasCleared'
  BY <1>2, <1>9 DEF GateInv, OutWasCleared, MemoryHolds
<1>13. HashHasItsRevision'
  BY <1>2, <1>5, <1>7, <1>9 DEF HashHasItsRevision, MemoryHolds
<1>14. SentInv' /\ CachedIsHeld'
  BY <1>2, <1>4, <1>6 DEF SentInv, CachedIsHeld
<1>15. QED
  BY <1>8, <1>10, <1>11, <1>12, <1>13, <1>14 DEF MemoryHolds

LEMMA MemoryNextInv == MemoryInv /\ [MemoryNext]_memoryVars => MemoryInv'
<1> SUFFICES ASSUME MemoryInv, [MemoryNext]_memoryVars PROVE MemoryInv'
  OBVIOUS
<1> USE RuleIsSomething, MemoryAssumption DEF MemoryInv, MemoryTypeOK, MemoryHolds, IsDoing
<1>1. ASSUME NEW t \in Note, EditFile(t) PROVE MemoryInv'
  BY <1>1 DEF EditFile, FoundInv, ClearInv, GateInv, SentInv, ReviewedWasRead, OutWasCleared,
     HashHasItsRevision, CachedIsHeld
<1>2. ASSUME NEW t \in Note, Review(t) PROVE MemoryInv'
  <2>1. /\ document.hash = t /\ document # None
        /\ document' = [document EXCEPT !.status = "reviewed"]
        /\ reviewed' = reviewed \cup {t}
        /\ UNCHANGED <<ruleFile, cache, sweep, revisions, convert, out, straddled, unread, removed, unheard, tally>>
    BY <1>2 DEF Review
  <2>2. document' \in Rule /\ document'.hash = t /\ document'.status = "reviewed" /\ document' # None
    BY <2>1 DEF Rule
  <2>3. MemoryTypeOK'
    BY <2>1, <2>2
  <2>4. QED
    BY <2>1, <2>2, <2>3 DEF FoundInv, ClearInv, GateInv, SentInv, ReviewedWasRead, OutWasCleared,
       HashHasItsRevision, CachedIsHeld
<1>3. ASSUME NEW p \in Sweeper, ReadFile(p) PROVE MemoryInv'
  <2>0. sweep[p] \in Capture /\ ruleFile \in Note
    OBVIOUS
  <2>1. /\ sweep'[p].at = "find" /\ sweep'[p].text = ruleFile
        /\ \A q \in Sweeper \ {p} : sweep'[q] = sweep[q]
        /\ sweep[p].at = "idle"
        /\ sweep' \in [Sweeper -> Capture]
    BY <1>3, <2>0 DEF ReadFile, Capture
  <2>2. UNCHANGED <<ruleFile, cache, document, revisions, convert, out, reviewed, straddled, unread, removed, unheard, tally>>
    BY <1>3 DEF ReadFile
  <2>3. MemoryTypeOK'
    BY <2>1, <2>2
  <2>4. QED
    BY <2>1, <2>2, <2>3 DEF FoundInv, ClearInv, GateInv, SentInv, ReviewedWasRead,
       OutWasCleared, HashHasItsRevision, CachedIsHeld
<1>4. ASSUME NEW p \in Sweeper, FindDocument(p) PROVE MemoryInv'
  <2>0. document.status \in {"none", "clear", "findings", "reviewed"} /\ sweep[p] \in Capture
    BY DEF Rule
  <2>1. /\ sweep'[p].at = "select" /\ sweep'[p].text = sweep[p].text /\ sweep[p].text \in Note
        /\ sweep'[p].found = IF document.hash = sweep[p].text THEN document.status ELSE "other"
        /\ \A q \in Sweeper \ {p} : sweep'[q] = sweep[q]
        /\ sweep[p].at = "find"
    BY <1>4 DEF FindDocument, Capture
  <2>2. sweep' \in [Sweeper -> Capture]
    BY <1>4, <2>0 DEF FindDocument, Capture
  <2>3. UNCHANGED <<ruleFile, cache, document, revisions, convert, out, reviewed, straddled, unread, removed, unheard, tally>>
    BY <1>4 DEF FindDocument
  <2>4. MemoryTypeOK'
    BY <2>1, <2>2, <2>3
  <2>5. FoundInv'
    BY <2>0, <2>1, <2>3 DEF FoundInv, ReviewedWasRead, HashHasItsRevision
  <2>6. QED
    BY <2>1, <2>3, <2>4, <2>5 DEF ClearInv, GateInv, SentInv, ReviewedWasRead, OutWasCleared,
       HashHasItsRevision, CachedIsHeld
<1>5. ASSUME NEW p \in Sweeper, SelectToSave(p) PROVE MemoryInv'
  <2>0. sweep[p] \in Capture
    OBVIOUS
  <2>1. /\ sweep'[p].at = "save" /\ sweep'[p].text = sweep[p].text /\ sweep'[p].found = sweep[p].found
        /\ \A q \in Sweeper \ {p} : sweep'[q] = sweep[q]
        /\ sweep[p].at = "select"
        /\ sweep' \in [Sweeper -> Capture]
    BY <1>5, <2>0 DEF SelectToSave, Capture
  <2>2. UNCHANGED <<ruleFile, cache, document, revisions, convert, out, reviewed, straddled, unread, removed, unheard, tally>>
    BY <1>5 DEF SelectToSave
  <2>3. MemoryTypeOK'
    BY <2>1, <2>2
  <2>4. QED
    BY <2>1, <2>2, <2>3 DEF FoundInv, ClearInv, GateInv, SentInv, ReviewedWasRead,
       OutWasCleared, HashHasItsRevision, CachedIsHeld
<1>6. ASSUME NEW p \in Sweeper, SaveRefused(p) PROVE MemoryInv'
  <2>1. FoundInv'
    BY <1>6, FinishKeepsFound DEF SaveRefused
  <2>2. MemoryTypeOK'
    BY <1>6, FinishedSweep DEF SaveRefused
  <2>3. QED
    <3>1. UNCHANGED <<ruleFile, cache, document, revisions, convert, out, reviewed, straddled, unread, removed, unheard, tally>>
      BY <1>6 DEF SaveRefused
    <3>2. \A q \in Sweeper : sweep'[q] = sweep[q] \/ (sweep[q].at = "save" /\ sweep'[q].at # "answered")
      BY <1>6, FinishedSweep DEF SaveRefused
    <3>3. QED
      BY <2>1, <2>2, <3>1, <3>2, MemoryAssumption DEF ClearInv, GateInv, SentInv, ReviewedWasRead,
         OutWasCleared, HashHasItsRevision, CachedIsHeld
<1>7. ASSUME NEW p \in Sweeper, SaveAnswered(p) PROVE MemoryInv'
  <2>1. FoundInv'
    BY <1>7, FinishKeepsFound DEF SaveAnswered
  <2>2. MemoryTypeOK'
    BY <1>7, FinishedSweep DEF SaveAnswered
  <2>3. SentInv' /\ CachedIsHeld'
    BY <1>7, FinishedSweep, MemoryAssumption DEF SaveAnswered, SentInv, CachedIsHeld
  <2>4. QED
    BY <1>7, <2>1, <2>2, <2>3 DEF SaveAnswered, ClearInv, GateInv, ReviewedWasRead, OutWasCleared,
       HashHasItsRevision
<1>8. ASSUME NEW p \in Sweeper, AnswerLost(p) PROVE MemoryInv'
  <2>1. FoundInv'
    BY <1>8, FinishKeepsFound DEF AnswerLost
  <2>2. MemoryTypeOK'
    BY <1>8, FinishedSweep DEF AnswerLost
  <2>3. SentInv' /\ CachedIsHeld'
    <3>1. UNCHANGED <<cache, document, straddled>> /\ unheard' = (unheard \/ p = "watch")
      BY <1>8 DEF AnswerLost
    <3>2. CASE p = "watch"
      BY ONLY <3>1, <3>2 DEF SentInv, CachedIsHeld
    <3>3. CASE p # "watch"
      <4>1. sweep'["watch"] = sweep["watch"]
        BY <1>8, <3>3, FinishedSweep, MemoryAssumption DEF AnswerLost
      <4>2. QED
        BY <3>1, <4>1 DEF SentInv, CachedIsHeld, IsDoing
    <3>4. QED
      BY <3>2, <3>3
  <2>4. ClearInv' /\ GateInv'
    BY <1>8 DEF AnswerLost, ClearInv, GateInv
  <2>5. ReviewedWasRead' /\ OutWasCleared' /\ HashHasItsRevision'
    BY <1>8 DEF AnswerLost, ReviewedWasRead, OutWasCleared, HashHasItsRevision
  <2>6. QED
    BY <2>1, <2>2, <2>3, <2>4, <2>5
<1>9. CASE RemoveDocument
  BY <1>9 DEF RemoveDocument, FoundInv, ClearInv, GateInv, SentInv, ReviewedWasRead, OutWasCleared,
     HashHasItsRevision, CachedIsHeld
<1>10. CASE RequireReviewed
  <2>1. document \in Rule /\ convert' = document.hash /\ document.status \in {"clear", "reviewed"}
    BY <1>10 DEF RequireReviewed, Rule
  <2>2. MemoryTypeOK'
    BY <1>10, <2>1 DEF RequireReviewed, Rule
  <2>3. GateInv'
    BY <1>10, <2>1 DEF RequireReviewed, GateInv, ClearInv, ReviewedWasRead, HashHasItsRevision
  <2>4. QED
    BY <1>10, <2>2, <2>3 DEF RequireReviewed, FoundInv, ClearInv, SentInv, ReviewedWasRead,
       OutWasCleared, HashHasItsRevision, CachedIsHeld
<1>11. CASE ReadRevisions
  <2>1. PICK t \in CurrentText \cup (IF revisions = {} THEN {"none"} ELSE {}) : out' = out \cup {t}
    BY <1>11 DEF ReadRevisions
  <2>2. t \in Note \cup {"none"} /\ (t = convert \/ removed)
    BY <1>11, <2>1 DEF ReadRevisions, CurrentText, GateInv
  <2>3. MemoryTypeOK'
    BY <1>11, <2>1, <2>2 DEF ReadRevisions
  <2>4. OutWasCleared' /\ GateInv'
    BY <1>11, <2>1, <2>2 DEF ReadRevisions, OutWasCleared, GateInv
  <2>5. QED
    BY <1>11, <2>3, <2>4 DEF ReadRevisions, FoundInv, ClearInv, SentInv, ReviewedWasRead,
       HashHasItsRevision, CachedIsHeld
<1>12. CASE UNCHANGED memoryVars
  BY <1>12 DEF FoundInv, ClearInv, GateInv, SentInv, ReviewedWasRead, OutWasCleared,
     HashHasItsRevision, CachedIsHeld
<1>13. QED
  BY <1>1, <1>2, <1>3, <1>4, <1>5, <1>6, <1>7, <1>8, <1>9, <1>10, <1>11, <1>12, SaveDocumentInv
  DEF MemoryNext, SweepStep

(* A document says reviewed of what a person read, or of a text that took   *)
(* the mark of a review meant for the one before it; what leaves the        *)
(* archive was cleared in that sense; and the watch's cache says what the   *)
(* archive has: each but for captures that save over each other and for     *)
(* the deletions it names (MemoryHolds).                                    *)
THEOREM MemoryIsKept == MemorySpec => []MemoryHolds
<1>1. MemoryInv => MemoryHolds
  BY DEF MemoryInv
<1>2. QED
  BY <1>1, MemoryInitInv, MemoryNextInv, PTL DEF MemorySpec

-----------------------------------------------------------------------------
(* Launcher.                                                                *)

LEMMA LauncherInitInv == LauncherInit => LauncherInv
<1> SUFFICES ASSUME LauncherInit PROVE LauncherInv
  OBVIOUS
<1>1. \A l \in Launcher : launcher[l].place = "look" /\ ~launcher[l].locked
  BY DEF LauncherInit, Starting
<1>2. LauncherTypeOK
  <2>1. cached \in [binary : Build \cup {"none", "spoilt"}, sidecar : Digest]
    BY DEF LauncherInit, Build, Digest
  <2>2. launcher \in [Launcher -> Process]
    BY DEF LauncherInit, Starting, Process, Standing, Digest
  <2>3. QED
    BY <2>1, <2>2 DEF LauncherInit, LauncherTypeOK, NoLock, Build
<1>3. \A l \in Launcher : LockOf(l) /\ BuildOf(l) /\ FetchOf(l) /\ PairOf(l)
  BY <1>1 DEF LockOf, BuildOf, FetchOf, PairOf, AtPlace, InstallPlace
<1>4. LauncherHolds
  BY <1>1 DEF LauncherHolds, StartedIsABuild, FoundIsThere, OneDownload, AtPlace
<1>5. QED
  BY <1>2, <1>3, <1>4 DEF LauncherInv

(* A step of one launcher is of that launcher.                              *)
LEMMA WentMeans ==
  ASSUME LauncherTypeOK, NEW l \in Launcher, NEW place \in Standing, Went(l, place)
  PROVE  /\ launcher' \in [Launcher -> Process]
         /\ launcher'[l].place = place /\ launcher'[l].locked = launcher[l].locked
         /\ launcher'[l].digest = launcher[l].digest /\ launcher'[l].got = launcher[l].got
         /\ \A m \in Launcher \ {l} : launcher'[m] = launcher[m]
  BY DEF LauncherTypeOK, Went, Process

(* What the properties say of one launcher.                                 *)
HoldsOf(l) ==
    /\ AtPlace(l, "started") => launcher[l].got \in Build
    /\ AtPlace(l, "missing") => misfit \/ stolen \/ retracted
    /\ AtPlace(l, "fetch") => stolen \/ cached.binary = "none" \/ cached.binary # cached.sidecar

LEMMA HoldsOfAll == LauncherHolds <=> \A l \in Launcher : HoldsOf(l)
  BY DEF LauncherHolds, StartedIsABuild, FoundIsThere, OneDownload, HoldsOf

Sound(l) == LockOf(l) /\ BuildOf(l) /\ FetchOf(l) /\ PairOf(l) /\ HoldsOf(l)

LEMMA InvIsSound == LauncherInv <=> LauncherTypeOK /\ \A l \in Launcher : Sound(l)
  BY HoldsOfAll DEF LauncherInv, Sound

LEMMA InvIsSoundNext == LauncherInv' <=> (LauncherTypeOK' /\ \A l \in Launcher : Sound(l)')
  BY DEF LauncherInv, Sound, LauncherHolds, StartedIsABuild, FoundIsThere, OneDownload, HoldsOf

(* A step that leaves the cache and the lock alone disturbs nobody else.    *)
LEMMA OthersAreSound ==
  ASSUME LauncherInv, NEW m \in Launcher, UNCHANGED <<cached, lockFile, stolen>>,
         misfit => misfit', retracted => retracted', launcher'[m] = launcher[m]
  PROVE  Sound(m)'
<1>1. Sound(m)
  BY InvIsSound
<1>2. LockOf(m)' /\ FetchOf(m)'
  BY <1>1 DEF Sound, LockOf, FetchOf, AtPlace
<1>3. BuildOf(m)'
  BY <1>1 DEF Sound, BuildOf, AtPlace
<1>4. PairOf(m)'
  BY <1>1 DEF Sound, PairOf, AtPlace, SeesBoth, BinaryThere
<1>5. HoldsOf(m)'
  BY <1>1 DEF Sound, HoldsOf, AtPlace
<1>6. QED
  BY <1>2, <1>3, <1>4, <1>5 DEF Sound

LEMMA MovedInv ==
  ASSUME LauncherInv, NEW l \in Launcher, UNCHANGED <<cached, lockFile, stolen>>, LauncherTypeOK',
         misfit => misfit', retracted => retracted',
         \A m \in Launcher \ {l} : launcher'[m] = launcher[m],
         Sound(l)'
  PROVE  LauncherInv'
<1>1. \A m \in Launcher : Sound(m)'
  BY OthersAreSound
<1>2. QED
  BY <1>1, InvIsSoundNext

(* A launcher that only goes on: what its next place asks of it.            *)
LEMMA WentQuietly ==
  ASSUME LauncherInv, NEW l \in Launcher, NEW place \in Standing, Went(l, place),
         UNCHANGED <<cached, lockFile, release, stolen>>,
         launchMishaps' \in Nat, misfit' \in BOOLEAN, retracted' \in BOOLEAN,
         misfit => misfit', retracted => retracted',
         AtPlace(l, "dead") => place = "dead",
         place \in InstallPlace \cup {"throw", "release"} => launcher[l].locked,
         place \in {"verify", "fetch", "rename", "write sidecar", "started"} => FALSE,
         place \in {"release", "found"} => cached.binary # "spoilt",
         place = "checksum" => cached.binary = "none" \/ cached.binary # cached.sidecar,
         place = "missing" => FALSE,
         \/ misfit' \/ stolen \/ retracted'
         \/ /\ place \notin {"clear", "clear sidecar"}
            /\ place \in {"sidecar", "release", "found"} => SeesBoth
            /\ place \in {"checksum", "retract", "retract sidecar"} => ~SeesBoth
  PROVE  LauncherInv'
<1>1. /\ launcher' \in [Launcher -> Process]
      /\ launcher'[l].place = place /\ launcher'[l].locked = launcher[l].locked
      /\ launcher'[l].digest = launcher[l].digest /\ launcher'[l].got = launcher[l].got
      /\ \A m \in Launcher \ {l} : launcher'[m] = launcher[m]
  BY WentMeans DEF LauncherInv
<1>2. LauncherTypeOK'
  BY <1>1 DEF LauncherInv, LauncherTypeOK
<1>3. Sound(l)
  BY InvIsSound
<1>4. Sound(l)'
  BY <1>1, <1>3 DEF Sound, LockOf, BuildOf, FetchOf, PairOf, HoldsOf, AtPlace, SeesBoth, BinaryThere,
     InstallPlace
<1>5. QED
  BY <1>1, <1>2, <1>4, MovedInv

LEMMA QuietSteps ==
  ASSUME LauncherInv, NEW l \in Launcher,
         \/ Look(l) \/ Verify(l) \/ SeesStale(l) \/ GivesUp(l) \/ InstallFails(l) \/ FallBack(l) \/ Dies(l)
  PROVE  LauncherInv'
<1>t. LauncherTypeOK /\ Sound(l)
  BY InvIsSound
<1> USE <1>t DEF OnDisk, Told, AtPlace
<1>1. CASE Look(l)
  <2>1. PICK next \in (IF SeesBoth THEN {"sidecar"} ELSE AfterLook(l)) : Went(l, next)
    BY <1>1 DEF Look
  <2>2. /\ next \in {"sidecar", "checksum", "lock", "fallback", "local"}
        /\ (next = "sidecar") <=> SeesBoth
        /\ next = "checksum" => launcher[l].locked
    BY <2>1 DEF AfterLook
  <2>3. ~SeesBoth => cached.binary = "none" \/ cached.binary # cached.sidecar
    BY DEF SeesBoth, BinaryThere
  <2>4. QED
    BY <1>1, <2>1, <2>2, <2>3, WentQuietly DEF Look, Standing, InstallPlace, LaunchEnds, LauncherTypeOK
<1>2. CASE Verify(l)
  <2>1. PICK next \in {"clear", "release", "found"} :
            /\ Went(l, next)
            /\ next = "clear" <=> cached.binary # launcher[l].digest
            /\ next = "release" => launcher[l].locked
    BY <1>2 DEF Verify
  <2>2. next # "clear" => cached.binary # "spoilt"
    BY <1>2, <2>1 DEF Verify, Sound, BuildOf, Build
  <2>3. misfit \/ stolen \/ retracted \/ SeesBoth
    BY <1>2 DEF Verify, Sound, PairOf
  <2>4. misfit' \in BOOLEAN /\ (misfit => misfit') /\ (next = "clear" => misfit')
    BY <1>2, <2>1 DEF Verify, LauncherTypeOK
  <2>5. QED
    BY <1>2, <2>1, <2>2, <2>3, <2>4, WentQuietly DEF Verify, Standing, InstallPlace, LaunchEnds, LauncherTypeOK
<1>3. CASE SeesStale(l)
  BY <1>3, WentQuietly DEF SeesStale, Standing, InstallPlace, LaunchEnds, LauncherTypeOK
<1>4. CASE GivesUp(l)
  BY <1>4, WentQuietly DEF GivesUp, Standing, InstallPlace, LaunchEnds, LauncherTypeOK
<1>5. CASE InstallFails(l)
  <2>1. launcher[l].locked /\ UNCHANGED <<cached, lockFile, release, misfit, stolen>> /\ launchMishaps' \in Nat
    <3>1. launcher[l].place \in {"checksum", "fetch", "write sidecar"}
      BY <1>5 DEF InstallFails
    <3>2. launcher[l].locked
      BY <3>1 DEF Sound, LockOf, InstallPlace
    <3>3. launchMishaps' = launchMishaps + 1 /\ UNCHANGED <<cached, lockFile, release, misfit, stolen>>
      BY <1>5 DEF InstallFails
    <3>4. launchMishaps \in Nat
      BY DEF LauncherTypeOK
    <3>5. launchMishaps' \in Nat
      BY ONLY <3>3, <3>4
    <3>6. QED
      BY <3>2, <3>3, <3>5
  <2>2. CASE AtPlace(l, "checksum") /\ Went(l, "throw") /\ retracted' = retracted
    BY <2>1, <2>2, WentQuietly DEF Standing, InstallPlace, LaunchEnds, LauncherTypeOK
  <2>3. CASE AtPlace(l, "fetch") /\ Went(l, "retract") /\ retracted' = retracted
    <3>1. misfit \/ stolen \/ retracted \/ ~SeesBoth
      BY <2>3 DEF Sound, PairOf, InstallPlace
    <3>2. QED
      BY <2>1, <2>3, <3>1, WentQuietly DEF Standing, InstallPlace, LaunchEnds, LauncherTypeOK
  <2>4. CASE AtPlace(l, "write sidecar") /\ Went(l, "retract") /\ retracted' = TRUE
    BY <2>1, <2>4, WentQuietly DEF Standing, InstallPlace, LaunchEnds, LauncherTypeOK
  <2>5. QED
    BY <1>5, <2>2, <2>3, <2>4 DEF InstallFails
<1>6. CASE FallBack(l)
  <2>1. PICK next \in {"local", "none"} : Went(l, next)
    BY <1>6 DEF FallBack
  <2>2. QED
    BY <1>6, <2>1, WentQuietly DEF FallBack, Standing, InstallPlace, LaunchEnds, LauncherTypeOK
<1>7. CASE Dies(l)
  <2>1. launchMishaps' \in Nat /\ UNCHANGED <<cached, lockFile, release, misfit, stolen, retracted>>
    BY <1>7 DEF Dies, LauncherTypeOK
  <2>2. Went(l, "dead") /\ "dead" \in Standing
    BY <1>7 DEF Dies, Standing, LaunchEnds
  <2>3. misfit \in BOOLEAN /\ retracted \in BOOLEAN
    BY DEF LauncherTypeOK
  <2>4. QED
    BY <2>1, <2>2, <2>3, WentQuietly DEF InstallPlace
<1>8. QED
  BY <1>1, <1>2, <1>3, <1>4, <1>5, <1>6, <1>7

(* The steps in which a launcher learns something.                          *)
LEMMA LearningSteps ==
  ASSUME LauncherInv, NEW l \in Launcher,
         ReadSidecar(l) \/ FetchChecksum(l) \/ FetchToFile(l) \/ Start(l)
  PROVE  LauncherInv'
<1>t. LauncherTypeOK /\ Sound(l) /\ launcher[l] \in Process
  BY InvIsSound DEF LauncherTypeOK
<1>u. UNCHANGED <<cached, lockFile, release, launchMishaps, misfit, stolen, retracted>>
  BY DEF ReadSidecar, FetchChecksum, FetchToFile, Start, OnDisk, Told
<1>1. CASE ReadSidecar(l)
  <2>1. /\ launcher[l].place = "sidecar"
        /\ launcher'[l].place = IF cached.sidecar = "none" THEN "clear" ELSE "verify"
        /\ launcher'[l].digest = cached.sidecar /\ launcher'[l].locked = launcher[l].locked
        /\ \A m \in Launcher \ {l} : launcher'[m] = launcher[m]
    BY <1>1, <1>t DEF ReadSidecar, AtPlace, LauncherTypeOK, Process
  <2>2. LauncherTypeOK'
    <3>1. launcher' \in [Launcher -> Process]
      BY <1>1, <1>t DEF ReadSidecar, LauncherTypeOK, Process, Standing
    <3>2. QED
      BY <1>t, <1>u, <3>1 DEF LauncherTypeOK
  <2>3. cached.sidecar # "none" => cached.sidecar \in Build
    BY <1>t DEF LauncherTypeOK, Digest
  <2>4. Sound(l)'
    BY <1>t, <1>u, <2>1, <2>3 DEF Sound, LockOf, BuildOf, FetchOf, PairOf, HoldsOf, AtPlace, SeesBoth,
       BinaryThere, InstallPlace
  <2>5. QED
    BY <1>u, <2>1, <2>2, <2>4, MovedInv
<1>2. CASE FetchChecksum(l)
  <2>1. /\ launcher[l].place = "checksum"
        /\ launcher'[l].place = "fetch"
        /\ launcher'[l].digest = release.checksum /\ launcher'[l].locked = launcher[l].locked
        /\ \A m \in Launcher \ {l} : launcher'[m] = launcher[m]
    BY <1>2, <1>t DEF FetchChecksum, AtPlace, LauncherTypeOK, Process
  <2>2. LauncherTypeOK'
    <3>1. launcher' \in [Launcher -> Process]
      BY <1>2, <1>t DEF FetchChecksum, LauncherTypeOK, Process, Standing, InstallPlace, Digest
    <3>2. QED
      BY <1>t, <1>u, <3>1 DEF LauncherTypeOK
  <2>3. release.checksum \in Build
    BY <1>t DEF LauncherTypeOK
  <2>4. Sound(l)'
    BY <1>t, <1>u, <2>1, <2>3 DEF Sound, LockOf, BuildOf, FetchOf, PairOf, HoldsOf, AtPlace, SeesBoth,
       BinaryThere, InstallPlace
  <2>5. QED
    BY <1>u, <2>1, <2>2, <2>4, MovedInv
<1>3. CASE FetchToFile(l)
  <2>1. /\ launcher[l].place = "fetch"
        /\ launcher'[l].place = IF release.binary = launcher[l].digest THEN "rename" ELSE "retract"
        /\ launcher'[l].got = release.binary
        /\ launcher'[l].digest = launcher[l].digest /\ launcher'[l].locked = launcher[l].locked
        /\ \A m \in Launcher \ {l} : launcher'[m] = launcher[m]
    BY <1>3, <1>t DEF FetchToFile, AtPlace, LauncherTypeOK, Process
  <2>2. LauncherTypeOK'
    <3>1. launcher' \in [Launcher -> Process]
      BY <1>3, <1>t DEF FetchToFile, LauncherTypeOK, Process, Standing, InstallPlace
    <3>2. QED
      BY <1>t, <1>u, <3>1 DEF LauncherTypeOK
  <2>4. Sound(l)'
    BY <1>t, <1>u, <2>1 DEF Sound, LockOf, BuildOf, FetchOf, PairOf, HoldsOf, AtPlace, SeesBoth,
       BinaryThere, InstallPlace
  <2>5. QED
    BY <1>u, <2>1, <2>2, <2>4, MovedInv
<1>4. CASE Start(l)
  <2>1. /\ launcher[l].place = "found"
        /\ launcher'[l].place = IF cached.binary = "none" THEN "missing" ELSE "started"
        /\ launcher'[l].got = cached.binary
        /\ launcher'[l].locked = launcher[l].locked
        /\ \A m \in Launcher \ {l} : launcher'[m] = launcher[m]
    BY <1>4, <1>t DEF Start, AtPlace, LauncherTypeOK, Process
  <2>2. LauncherTypeOK'
    <3>1. launcher' \in [Launcher -> Process]
      BY <1>4, <1>t DEF Start, LauncherTypeOK, Process, Standing, LaunchEnds
    <3>2. QED
      BY <1>t, <1>u, <3>1 DEF LauncherTypeOK
  <2>3. cached.binary \in Build \cup {"none", "spoilt"}
    BY <1>t DEF LauncherTypeOK
  <2>4. Sound(l)'
    BY <1>t, <1>u, <2>1, <2>3 DEF Sound, LockOf, BuildOf, FetchOf, PairOf, HoldsOf, AtPlace, SeesBoth,
       BinaryThere, InstallPlace
  <2>5. QED
    BY <1>u, <2>1, <2>2, <2>4, MovedInv
<1>5. QED
  BY <1>1, <1>2, <1>3, <1>4

(* A step on the cache: it brings no spoilt file back, completes a pair     *)
(* only under the lock, and unless something went wrong only the lock's     *)
(* holder takes it, and takes no pair away.                                 *)
LEMMA CacheStep ==
  ASSUME LauncherInv, NEW l \in Launcher, LauncherTypeOK', UNCHANGED <<lockFile, stolen, misfit, retracted>>,
         \A m \in Launcher \ {l} : launcher'[m] = launcher[m],
         cached.binary # "spoilt" => cached'.binary # "spoilt",
         \/ cached'.binary = "none" \/ cached'.binary # cached'.sidecar
         \/ launcher[l].locked /\ ~AtPlace(l, "dead"),
         \/ misfit \/ stolen \/ retracted
         \/ launcher[l].locked /\ ~AtPlace(l, "dead") /\ (SeesBoth => SeesBoth'),
         Sound(l)'
  PROVE  LauncherInv'
<1>1. ASSUME NEW m \in Launcher \ {l} PROVE Sound(m)'
  <2>1. Sound(m) /\ Sound(l) /\ launcher'[m] = launcher[m]
    BY <1>1, InvIsSound
  <2>2. launcher[l].locked /\ ~AtPlace(l, "dead") =>
            stolen \/ launcher[m].place \notin InstallPlace \cup {"throw", "release"}
    BY <1>1, <2>1 DEF Sound, LockOf, AtPlace, InstallPlace
  <2>3. LockOf(m)' /\ BuildOf(m)'
    BY <2>1 DEF Sound, LockOf, BuildOf, AtPlace
  <2>4. FetchOf(m)' /\ HoldsOf(m)'
    BY <2>1, <2>2 DEF Sound, FetchOf, HoldsOf, AtPlace, InstallPlace
  <2>5. PairOf(m)'
    BY <2>1, <2>2 DEF Sound, PairOf, AtPlace, InstallPlace, SeesBoth, BinaryThere
  <2>6. QED
    BY <2>3, <2>4, <2>5 DEF Sound
<1>2. QED
  BY <1>1, InvIsSoundNext

(* A cache with one of its files changed is still one.                      *)
LEMMA CacheTyped ==
  ASSUME LauncherTypeOK, NEW l \in Launcher, NEW place \in Standing, Went(l, place),
         UNCHANGED <<lockFile, release, launchMishaps, misfit, stolen, retracted>>,
         cached' \in [binary : Build \cup {"none", "spoilt"}, sidecar : Digest]
  PROVE  LauncherTypeOK'
<1>1. launcher' \in [Launcher -> Process]
  BY WentMeans
<1>2. QED
  BY <1>1 DEF LauncherTypeOK

LEMMA CacheSteps ==
  ASSUME LauncherInv, NEW l \in Launcher,
         \/ Clear(l) \/ ClearSidecar(l) \/ Rename(l) \/ WriteSidecar(l) \/ Retract(l) \/ RetractSidecar(l)
  PROVE  LauncherInv'
<1>t. LauncherTypeOK /\ Sound(l)
  BY InvIsSound
<1>u. UNCHANGED <<lockFile, release, launchMishaps, misfit, stolen, retracted>>
  BY DEF Clear, ClearSidecar, Rename, WriteSidecar, Retract, RetractSidecar, Told
<1>c. cached \in [binary : Build \cup {"none", "spoilt"}, sidecar : Digest] /\ launcher[l] \in Process
  BY <1>t DEF LauncherTypeOK
<1>1. CASE Clear(l)
  <2>1. AtPlace(l, "clear") /\ Went(l, "clear sidecar") /\ "clear sidecar" \in Standing
    BY <1>1 DEF Clear, Standing
  <2>2. /\ launcher'[l].place = "clear sidecar" /\ launcher'[l].locked = launcher[l].locked
        /\ \A m \in Launcher \ {l} : launcher'[m] = launcher[m]
    BY <1>t, <2>1, WentMeans
  <2>3. cached' = [binary |-> "none", sidecar |-> cached.sidecar]
    BY <1>1, <1>c DEF Clear
  <2>4. LauncherTypeOK'
    BY <1>t, <1>u, <1>c, <2>1, <2>3, CacheTyped
  <2>5. misfit \/ stolen \/ retracted
    BY <1>t, <2>1 DEF Sound, PairOf, AtPlace
  <2>6. Sound(l)'
    BY <1>t, <1>u, <2>1, <2>2, <2>5 DEF Sound, LockOf, BuildOf, FetchOf, PairOf, HoldsOf, AtPlace, InstallPlace
  <2>7. QED
    BY <1>u, <2>2, <2>3, <2>4, <2>5, <2>6, CacheStep
<1>2. CASE ClearSidecar(l)
  <2>1. PICK next \in AfterLook(l) : Went(l, next)
    BY <1>2 DEF ClearSidecar
  <2>2. /\ next \in Standing /\ next \in {"checksum", "lock", "fallback", "local"}
        /\ next = "checksum" => launcher[l].locked
        /\ AtPlace(l, "clear sidecar")
    BY <1>2, <2>1 DEF ClearSidecar, AfterLook, Standing, InstallPlace, LaunchEnds
  <2>3. /\ launcher'[l].place = next /\ launcher'[l].locked = launcher[l].locked
        /\ \A m \in Launcher \ {l} : launcher'[m] = launcher[m]
    BY <1>t, <2>1, <2>2, WentMeans
  <2>4. cached' = [binary |-> cached.binary, sidecar |-> "none"]
    BY <1>2, <1>c DEF ClearSidecar
  <2>5. LauncherTypeOK'
    BY <1>t, <1>u, <1>c, <2>1, <2>2, <2>4, CacheTyped DEF Digest
  <2>6. misfit \/ stolen \/ retracted
    BY <1>t, <2>2 DEF Sound, PairOf, AtPlace
  <2>7. cached'.binary = "none" \/ cached'.binary # cached'.sidecar
    BY <2>4
  <2>8. Sound(l)'
    BY <1>t, <1>u, <2>2, <2>3, <2>6, <2>7 DEF Sound, LockOf, BuildOf, FetchOf, PairOf, HoldsOf, AtPlace,
       InstallPlace
  <2>9. QED
    BY <1>u, <2>3, <2>4, <2>5, <2>6, <2>7, <2>8, CacheStep
<1>3. CASE Rename(l)
  <2>1. AtPlace(l, "rename") /\ Went(l, "write sidecar") /\ "write sidecar" \in Standing
    BY <1>3 DEF Rename, Standing, InstallPlace
  <2>2. /\ launcher'[l].place = "write sidecar" /\ launcher'[l].locked = launcher[l].locked
        /\ launcher'[l].digest = launcher[l].digest
        /\ \A m \in Launcher \ {l} : launcher'[m] = launcher[m]
    BY <1>t, <2>1, WentMeans
  <2>3. cached' = [binary |-> launcher[l].got, sidecar |-> cached.sidecar]
    BY <1>3, <1>c DEF Rename
  <2>4. launcher[l].locked /\ launcher[l].digest \in Build /\ launcher[l].got \in Build
    BY <1>t, <2>1 DEF Sound, LockOf, BuildOf, AtPlace, InstallPlace
  <2>5. LauncherTypeOK'
    BY <1>t, <1>u, <1>c, <2>1, <2>3, <2>4, CacheTyped
  <2>6. launcher[l].got # "spoilt" /\ launcher[l].got # "none"
    BY <2>4 DEF Build
  <2>7. misfit \/ stolen \/ retracted \/ ~SeesBoth
    BY <1>t, <2>1 DEF Sound, PairOf, AtPlace, InstallPlace
  <2>8. Sound(l)'
    BY <1>t, <1>u, <2>1, <2>2, <2>3, <2>4, <2>6 DEF Sound, LockOf, BuildOf, FetchOf, PairOf, HoldsOf, AtPlace,
       InstallPlace, BinaryThere
  <2>9. QED
    BY <1>u, <2>1, <2>2, <2>3, <2>4, <2>5, <2>6, <2>7, <2>8, CacheStep DEF AtPlace
<1>4. CASE WriteSidecar(l)
  <2>1. AtPlace(l, "write sidecar") /\ Went(l, "release") /\ "release" \in Standing
    BY <1>4 DEF WriteSidecar, Standing
  <2>2. /\ launcher'[l].place = "release" /\ launcher'[l].locked = launcher[l].locked
        /\ \A m \in Launcher \ {l} : launcher'[m] = launcher[m]
    BY <1>t, <2>1, WentMeans
  <2>3. cached' = [binary |-> cached.binary, sidecar |-> launcher[l].digest]
    BY <1>4, <1>c DEF WriteSidecar
  <2>4. launcher[l].locked /\ launcher[l].digest \in Build
    BY <1>t, <2>1 DEF Sound, LockOf, BuildOf, AtPlace, InstallPlace
  <2>5. LauncherTypeOK'
    BY <1>t, <1>u, <1>c, <2>1, <2>3, <2>4, CacheTyped DEF Digest
  <2>6. SeesBoth => SeesBoth'
    BY <2>3, <2>4 DEF SeesBoth, BinaryThere, Build
  <2>7. misfit \/ stolen \/ retracted \/ SeesBoth'
    BY <1>t, <2>1, <2>3, <2>4 DEF Sound, PairOf, AtPlace, SeesBoth, BinaryThere, Build
  <2>8. Sound(l)'
    BY <1>t, <1>u, <2>1, <2>2, <2>3, <2>4, <2>7 DEF Sound, LockOf, BuildOf, FetchOf, PairOf, HoldsOf, AtPlace,
       InstallPlace
  <2>9. QED
    BY <1>u, <2>1, <2>2, <2>3, <2>4, <2>5, <2>6, <2>8, CacheStep DEF AtPlace
<1>5. CASE Retract(l)
  <2>1. AtPlace(l, "retract") /\ Went(l, "retract sidecar") /\ "retract sidecar" \in Standing
    BY <1>5 DEF Retract, Standing, InstallPlace
  <2>2. /\ launcher'[l].place = "retract sidecar" /\ launcher'[l].locked = launcher[l].locked
        /\ \A m \in Launcher \ {l} : launcher'[m] = launcher[m]
    BY <1>t, <2>1, WentMeans
  <2>3. cached' = [binary |-> "none", sidecar |-> cached.sidecar]
    BY <1>5, <1>c DEF Retract
  <2>4. launcher[l].locked
    BY <1>t, <2>1 DEF Sound, LockOf, AtPlace, InstallPlace
  <2>5. LauncherTypeOK'
    BY <1>t, <1>u, <1>c, <2>1, <2>3, CacheTyped
  <2>6. (misfit \/ stolen \/ retracted \/ ~SeesBoth) /\ ~SeesBoth'
    BY <1>t, <2>1, <2>3 DEF Sound, PairOf, AtPlace, InstallPlace, SeesBoth, BinaryThere
  <2>7. Sound(l)'
    BY <1>t, <1>u, <2>1, <2>2, <2>3, <2>4, <2>6 DEF Sound, LockOf, BuildOf, FetchOf, PairOf, HoldsOf, AtPlace,
       InstallPlace
  <2>8. QED
    BY <1>u, <2>1, <2>2, <2>3, <2>4, <2>5, <2>6, <2>7, CacheStep DEF AtPlace
<1>6. CASE RetractSidecar(l)
  <2>1. AtPlace(l, "retract sidecar") /\ Went(l, "throw") /\ "throw" \in Standing
    BY <1>6 DEF RetractSidecar, Standing
  <2>2. /\ launcher'[l].place = "throw" /\ launcher'[l].locked = launcher[l].locked
        /\ \A m \in Launcher \ {l} : launcher'[m] = launcher[m]
    BY <1>t, <2>1, WentMeans
  <2>3. cached' = [binary |-> cached.binary, sidecar |-> "none"]
    BY <1>6, <1>c DEF RetractSidecar
  <2>4. launcher[l].locked
    BY <1>t, <2>1 DEF Sound, LockOf, AtPlace, InstallPlace
  <2>5. LauncherTypeOK'
    BY <1>t, <1>u, <1>c, <2>1, <2>3, CacheTyped DEF Digest
  <2>6. misfit \/ stolen \/ retracted \/ ~SeesBoth
    BY <1>t, <2>1 DEF Sound, PairOf, AtPlace, InstallPlace
  <2>7. Sound(l)'
    BY <1>t, <1>u, <2>1, <2>2, <2>3, <2>4 DEF Sound, LockOf, BuildOf, FetchOf, PairOf, HoldsOf, AtPlace,
       InstallPlace
  <2>8. QED
    BY <1>u, <2>1, <2>2, <2>3, <2>4, <2>5, <2>6, <2>7, CacheStep DEF AtPlace
<1>7. QED
  BY <1>1, <1>2, <1>3, <1>4, <1>5, <1>6

(* A step on the lock: after it a live launcher has it, or somebody's was   *)
(* stolen.                                                                  *)
LEMMA LockStep ==
  ASSUME LauncherInv, NEW l \in Launcher, LauncherTypeOK', UNCHANGED <<cached, misfit, retracted>>,
         stolen => stolen', \A m \in Launcher \ {l} : launcher'[m] = launcher[m],
         \A m \in Launcher \ {l} :
             stolen' \/ (launcher[m].locked /\ ~AtPlace(m, "dead") => lockFile'.by = m),
         Sound(l)'
  PROVE  LauncherInv'
<1>1. ASSUME NEW m \in Launcher \ {l} PROVE Sound(m)'
  <2>1. Sound(m) /\ launcher'[m] = launcher[m]
    BY <1>1, InvIsSound
  <2>2. LockOf(m)'
    BY <1>1, <2>1 DEF Sound, LockOf, AtPlace
  <2>3. QED
    BY <2>1, <2>2 DEF Sound, BuildOf, FetchOf, PairOf, HoldsOf, AtPlace, SeesBoth, BinaryThere
<1>2. QED
  BY <1>1, InvIsSoundNext

LEMMA LockSteps ==
  ASSUME LauncherInv, NEW l \in Launcher, Acquire(l) \/ Steal(l) \/ Release(l)
  PROVE  LauncherInv'
<1>t. LauncherTypeOK /\ launcher[l] \in Process /\ \A m \in Launcher : Sound(m)
  BY InvIsSound DEF LauncherTypeOK
<1>n. NoLock \in [by : Launcher \cup {"nobody"}, old : BOOLEAN] /\ NoLock.by \notin Launcher
  BY LauncherAssumption DEF NoLock
<1>1. CASE Acquire(l)
  <2>1. /\ AtPlace(l, "lock") /\ lockFile = NoLock /\ lockFile' = [by |-> l, old |-> FALSE]
        /\ launcher' = [launcher EXCEPT ![l].place = "look", ![l].locked = TRUE]
        /\ UNCHANGED <<cached, release, launchMishaps, misfit, stolen, retracted>>
    BY <1>1 DEF Acquire, Told
  <2>2. /\ launcher'[l].place = "look" /\ launcher'[l].locked
        /\ \A m \in Launcher \ {l} : launcher'[m] = launcher[m]
        /\ launcher' \in [Launcher -> Process]
    BY <1>t, <2>1 DEF LauncherTypeOK, Process, Standing
  <2>3. LauncherTypeOK'
    BY <1>t, <2>1, <2>2 DEF LauncherTypeOK
  <2>4. \A m \in Launcher : stolen \/ ~(launcher[m].locked /\ ~AtPlace(m, "dead"))
    BY <1>t, <1>n, <2>1 DEF Sound, LockOf
  <2>5. Sound(l)'
    BY <1>t, <2>1, <2>2 DEF Sound, LockOf, BuildOf, FetchOf, PairOf, HoldsOf, AtPlace, InstallPlace
  <2>6. QED
    BY <2>1, <2>2, <2>3, <2>4, <2>5, LockStep
<1>2. CASE Steal(l)
  <2>1. /\ AtPlace(l, "steal") /\ lockFile' = NoLock /\ Went(l, "lock") /\ "lock" \in Standing
        /\ stolen' = (stolen \/ \E m \in Launcher : lockFile.by = m /\ ~AtPlace(m, "dead"))
        /\ UNCHANGED <<cached, release, launchMishaps, misfit, retracted>>
    BY <1>2 DEF Steal, Standing
  <2>2. /\ launcher' \in [Launcher -> Process]
        /\ launcher'[l].place = "lock" /\ launcher'[l].locked = launcher[l].locked
        /\ \A m \in Launcher \ {l} : launcher'[m] = launcher[m]
    BY <1>t, <2>1, WentMeans
  <2>3. LauncherTypeOK'
    <3>1. stolen' \in BOOLEAN
      BY <2>1
    <3>2. QED
      BY <1>t, <1>n, <2>1, <2>2, <3>1 DEF LauncherTypeOK
  <2>4. \A m \in Launcher : stolen' \/ ~(launcher[m].locked /\ ~AtPlace(m, "dead"))
    BY <1>t, <2>1 DEF Sound, LockOf
  <2>5. Sound(l)'
    <3>1. stolen' \/ ~launcher'[l].locked
      BY <2>1, <2>2, <2>4 DEF AtPlace
    <3>2. QED
      BY <1>t, <2>1, <2>2, <3>1 DEF Sound, LockOf, BuildOf, FetchOf, PairOf, HoldsOf, AtPlace, InstallPlace
  <2>6. stolen => stolen'
    BY <2>1
  <2>7. QED
    BY <2>1, <2>2, <2>3, <2>4, <2>5, <2>6, LockStep
<1>3. CASE Release(l)
  <2>1. /\ launcher[l].place \in {"release", "throw"} /\ lockFile' = NoLock
        /\ launcher' = [launcher EXCEPT ![l].place = IF AtPlace(l, "throw") THEN "fallback" ELSE "found",
                                        ![l].locked = FALSE]
        /\ UNCHANGED <<cached, release, launchMishaps, misfit, stolen, retracted>>
    BY <1>3 DEF Release, AtPlace, Told
  <2>2. /\ launcher'[l].place = IF AtPlace(l, "throw") THEN "fallback" ELSE "found"
        /\ launcher'[l].locked = FALSE
        /\ \A m \in Launcher \ {l} : launcher'[m] = launcher[m]
        /\ launcher' \in [Launcher -> Process]
    BY <1>t, <2>1 DEF LauncherTypeOK, Process, Standing
  <2>3. LauncherTypeOK'
    BY <1>t, <1>n, <2>1, <2>2 DEF LauncherTypeOK
  <2>4. stolen \/ lockFile.by = l
    BY <1>t, <2>1 DEF Sound, LockOf, AtPlace
  <2>5. \A m \in Launcher \ {l} : stolen \/ ~(launcher[m].locked /\ ~AtPlace(m, "dead"))
    BY <1>t, <2>4 DEF Sound, LockOf
  <2>6. Sound(l)'
    <3>1. launcher[l].place = "release" =>
              cached.binary # "spoilt" /\ (misfit \/ stolen \/ retracted \/ SeesBoth)
      BY <1>t DEF Sound, BuildOf, PairOf
    <3>2. launcher'[l].place = "found" => launcher[l].place = "release"
      BY <2>1, <2>2 DEF AtPlace
    <3>3. UNCHANGED SeesBoth
      BY <2>1 DEF SeesBoth, BinaryThere
    <3>4. launcher'[l].place \in {"found", "fallback"}
      BY <2>2
    <3>5. LockOf(l)' /\ FetchOf(l)' /\ HoldsOf(l)'
      BY <2>2, <3>4 DEF LockOf, FetchOf, HoldsOf, AtPlace, InstallPlace
    <3>6. BuildOf(l)' /\ PairOf(l)'
      BY <2>1, <3>1, <3>2, <3>3, <3>4 DEF BuildOf, PairOf, AtPlace, InstallPlace
    <3>7. QED
      BY <3>5, <3>6 DEF Sound
  <2>7. QED
    BY <2>1, <2>2, <2>3, <2>5, <2>6, LockStep
<1>4. QED
  BY <1>1, <1>2, <1>3

LEMMA LauncherNextInv == LauncherInv /\ [LauncherNext]_launcherVars => LauncherInv'
<1> SUFFICES ASSUME LauncherInv, [LauncherNext]_launcherVars PROVE LauncherInv'
  OBVIOUS
<1>t. LauncherTypeOK /\ \A m \in Launcher : Sound(m)
  BY InvIsSound
<1>1. ASSUME UNCHANGED <<cached, launcher, misfit, stolen, retracted>>, lockFile'.by = lockFile.by, LauncherTypeOK'
      PROVE LauncherInv'
  <2>1. \A m \in Launcher : Sound(m)'
    BY <1>t, <1>1 DEF Sound, LockOf, BuildOf, FetchOf, PairOf, HoldsOf, AtPlace, SeesBoth, BinaryThere
  <2>2. QED
    BY <1>1, <2>1, InvIsSoundNext
<1>2. CASE Publish
  <2>1. LauncherTypeOK' /\ UNCHANGED <<cached, launcher, lockFile, misfit, stolen, retracted>>
    BY <1>t, <1>2 DEF Publish, Told, LauncherTypeOK, Build
  <2>2. QED
    BY <1>1, <2>1
<1>3. CASE LockAges
  <2>1. LauncherTypeOK' /\ UNCHANGED <<cached, launcher, misfit, stolen, retracted>> /\ lockFile'.by = lockFile.by
    BY <1>t, <1>3 DEF LockAges, Told, LauncherTypeOK
  <2>2. QED
    BY <1>1, <2>1
<1>4. CASE UNCHANGED launcherVars
  BY <1>t, <1>1, <1>4 DEF launcherVars, LauncherTypeOK
<1>5. QED
  BY <1>2, <1>3, <1>4, QuietSteps, LearningSteps, CacheSteps, LockSteps DEF LauncherNext

(* However many launchers meet over the cache and its lock, and whatever    *)
(* fails or dies, what is started is a whole build, a binary that was found *)
(* is there, and what is there is not fetched again, but for the mishaps    *)
(* named (LauncherHolds).                                                   *)
THEOREM LaunchersMeetSafely == LauncherSpec => []LauncherHolds
<1>1. LauncherInv => LauncherHolds
  BY DEF LauncherInv
<1>2. QED
  BY <1>1, LauncherInitInv, LauncherNextInv, PTL DEF LauncherSpec

-----------------------------------------------------------------------------
(* Materializer.                                                            *)

LEMMA MaterializerInitInv == MaterializerInit => MaterializerInv
<1> SUFFICES ASSUME MaterializerInit PROVE MaterializerInv
  OBVIOUS
<1>1. \A r \in Run : run[r] = NoRun
  BY DEF MaterializerInit
<1>2. MaterializerTypeOK
  <2>1. NoRun \in RunState
    <3>1. 1 \in File
      BY MaterializerAssumption DEF File
    <3>2. QED
      BY <3>1 DEF NoRun, RunState
  <2>2. run \in [Run -> RunState]
    BY <2>1 DEF MaterializerInit
  <2>3. file \in [File -> Content]
    BY DEF MaterializerInit, Absent, Content
  <2>4. QED
    BY <2>2, <2>3 DEF MaterializerInit, MaterializerTypeOK
<1>3. FilesAreOurs
  BY DEF MaterializerInit, FilesAreOurs
<1>4. ASSUME NEW r \in Run PROVE PlacesOf(r) /\ ProgressOf(r) /\ AloneOf(r)
  BY <1>1 DEF MaterializerInit, NoRun, PlacesOf, ProgressOf, AloneOf, UnderWay, Checked, At
<1>5. QED
  BY <1>2, <1>3, <1>4 DEF MaterializerInv

(* A step of one run leaves the other runs' records alone, and a run that   *)
(* has begun has begun.                                                     *)
RunMoves(r, rec) ==
    /\ run' \in [Run -> RunState]
    /\ run'[r] = rec
    /\ \A o \in Run \ {r} : run'[o] = run[o]

LEMMA RunMoved ==
  ASSUME MaterializerTypeOK, NEW r \in Run, NEW rec \in RunState, run' = [run EXCEPT ![r] = rec]
  PROVE  RunMoves(r, rec)
  BY DEF MaterializerTypeOK, RunMoves

LEMMA StrangeStays ==
  ASSUME NEW r \in Run, NEW rec, RunMoves(r, rec), rec.pc # "idle"
  PROVE  \A o \in Run : Strange(o) => Strange(o)'
  BY DEF Strange, RunMoves

(* A step of a run in which it neither links nor takes back a file.         *)
LEMMA RunGoesOn ==
  ASSUME MaterializerInv, NEW r \in Run, NEW rec \in RunState, RunMoves(r, rec),
         UNCHANGED <<file, toolWrites, undone>>, crashes' \in Nat,
         stuck' \subseteq Run, stuck \subseteq stuck',
         lapped' \subseteq Run, lapped \subseteq lapped',
         staged' \subseteq Run \X File,
         \A o \in Run \ {r} : staged' \cap Temporaries(o) = staged \cap Temporaries(o),
         rec.pc # "idle", rec.linked = run[r].linked,
         \A f \in rec.unchanged \ run[r].unchanged : file[f].of = Bundle[r],
         ProgressOf(r)', AloneOf(r)',
         \A o \in Run \ {r} : o \notin lapped' /\ UnderWay(o) => rec.pc = "ended"
  PROVE  MaterializerInv'
<1>1. MaterializerTypeOK'
  BY DEF MaterializerInv, MaterializerTypeOK, RunMoves
<1>2. FilesAreOurs'
  BY DEF MaterializerInv, FilesAreOurs, RunMoves
<1>3. ASSUME NEW o \in Run PROVE PlacesOf(o)'
  BY <1>3 DEF MaterializerInv, PlacesOf, RunMoves
<1>4. ASSUME NEW o \in Run \ {r} PROVE ProgressOf(o)'
  <2>1. ProgressOf(o) /\ run'[o] = run[o]
    BY <1>4 DEF MaterializerInv, RunMoves
  <2>2. staged' \cap Temporaries(o)' = staged \cap Temporaries(o)
    BY <1>4 DEF Temporaries
  <2>3. QED
    BY <2>1, <2>2 DEF ProgressOf, At, Failed
<1>5. ASSUME NEW o \in Run \ {r} PROVE AloneOf(o)'
  <2>1. AloneOf(o) /\ run'[o] = run[o] /\ (Strange(o) => Strange(o)')
    BY <1>5, StrangeStays DEF MaterializerInv, RunMoves
  <2>2. o \notin lapped' /\ UnderWay(o) => \A q \in Run \ {o} : ~UnderWay(q)'
    BY <1>5, <2>1 DEF AloneOf, UnderWay, RunMoves
  <2>3. QED
    BY <1>5, <2>1, <2>2 DEF AloneOf, Checked, At, UnderWay
<1>6. QED
  BY <1>1, <1>2, <1>3, <1>4, <1>5 DEF MaterializerInv

(* Ends, and any other change of a record, is of a record.                  *)
LEMMA EndsMeans ==
  ASSUME MaterializerTypeOK, NEW r \in Run, NEW outcome \in {"ok", "refused", "unsafe", "collision", "io", "died"},
         Ends(r, outcome)
  PROVE  LET rec == [pc |-> "ended", at |-> run[r].at, unchanged |-> run[r].unchanged,
                     linked |-> run[r].linked, outcome |-> outcome]
         IN rec \in RunState /\ RunMoves(r, rec)
<1> DEFINE rec == [pc |-> "ended", at |-> run[r].at, unchanged |-> run[r].unchanged,
                   linked |-> run[r].linked, outcome |-> outcome]
<1>1. run[r] \in RunState
  BY DEF MaterializerTypeOK
<1>2. rec \in RunState
  BY <1>1 DEF RunState
<1>3. run'[r] = rec
  BY <1>1 DEF Ends, RunState, MaterializerTypeOK
<1>4. run' \in [Run -> RunState] /\ \A o \in Run \ {r} : run'[o] = run[o]
  BY <1>2, <1>3 DEF Ends, MaterializerTypeOK
<1>5. QED
  BY <1>2, <1>3, <1>4 DEF RunMoves

(* Removing the temporaries of a run touches no other run's.                *)
LEMMA RemoveMeans ==
  ASSUME MaterializerTypeOK, NEW r \in Run, RemoveTemporaries(r)
  PROVE  /\ staged' \subseteq Run \X File /\ stuck \subseteq stuck' /\ stuck' \subseteq Run
         /\ staged' \cap Temporaries(r) = {} \/ r \in stuck'
         /\ \A o \in Run \ {r} : staged' \cap Temporaries(o) = staged \cap Temporaries(o)
<1>1. PICK kept \in SUBSET (staged \cap Temporaries(r)) :
         /\ staged' = (staged \ Temporaries(r)) \cup kept
         /\ stuck' = IF kept = {} THEN stuck ELSE stuck \cup {r}
  BY DEF RemoveTemporaries
<1>2. \A o \in Run \ {r} : Temporaries(o) \cap Temporaries(r) = {}
  BY DEF Temporaries
<1>3. \A o \in Run \ {r} : staged' \cap Temporaries(o) = staged \cap Temporaries(o)
  BY <1>1, <1>2
<1>4. staged' \cap Temporaries(r) = {} \/ r \in stuck'
  BY <1>1
<1>5. QED
  BY <1>1, <1>3, <1>4 DEF MaterializerTypeOK

LEMMA MaterializeBundleInv ==
  ASSUME MaterializerInv, NEW r \in Run, MaterializeBundle(r)
  PROVE  MaterializerInv'
<1>t. MaterializerTypeOK /\ run[r] \in RunState /\ PlacesOf(r) /\ ProgressOf(r) /\ AloneOf(r)
  BY DEF MaterializerInv, MaterializerTypeOK
<1>u. At(r, "idle") /\ UNCHANGED <<file, staged, crashes, toolWrites, undone, stuck>>
  BY DEF MaterializeBundle
<1>s. staged' \subseteq Run \X File /\ crashes' \in Nat /\ lapped \subseteq Run
      /\ stuck' \subseteq Run /\ stuck \subseteq stuck'
      /\ \A o \in Run \ {r} : staged' \cap Temporaries(o) = staged \cap Temporaries(o)
  BY <1>t, <1>u DEF MaterializerTypeOK
<1>1. CASE Ends(r, "refused") /\ UNCHANGED lapped
  <2> DEFINE rec == [pc |-> "ended", at |-> run[r].at, unchanged |-> run[r].unchanged,
                     linked |-> run[r].linked, outcome |-> "refused"]
  <2>1. rec \in RunState /\ RunMoves(r, rec)
    BY <1>t, <1>1, EndsMeans
  <2>2. run'[r] = rec
    BY <2>1 DEF RunMoves
  <2>3. ProgressOf(r)' /\ AloneOf(r)'
    BY <1>t, <1>u, <2>2 DEF ProgressOf, AloneOf, At, UnderWay, Checked, Temporaries, Failed
  <2>4. QED
    BY <1>u, <1>s, <1>1, <2>1, <2>3, RunGoesOn
<1>2. CASE /\ run' = [run EXCEPT ![r].pc = "check"]
           /\ lapped' = IF \E o \in Run: UnderWay(o)
                            THEN lapped \cup {r} \cup {o \in Run: UnderWay(o)} ELSE lapped
  <2> DEFINE rec == [run[r] EXCEPT !.pc = "check"]
  <2>1. rec \in RunState /\ RunMoves(r, rec)
    <3>1. rec \in RunState
      BY <1>t DEF RunState
    <3>2. QED
      BY <1>t, <1>2, <3>1, RunMoved
  <2>2. run'[r] = rec /\ \A o \in Run \ {r} : run'[o] = run[o]
    BY <2>1 DEF RunMoves
  <2>3. lapped' \subseteq Run /\ lapped \subseteq lapped'
        /\ (r \notin lapped' => \A o \in Run : ~UnderWay(o))
        /\ \A o \in Run : UnderWay(o) => o \in lapped'
    BY <1>2, <1>s
  <2>4. rec.pc = "check" /\ rec.linked = run[r].linked /\ rec.unchanged = run[r].unchanged
        /\ rec.outcome = run[r].outcome /\ rec.at = run[r].at
    BY <1>t DEF RunState
  <2>5. ProgressOf(r)'
    BY <1>t, <1>u, <2>2, <2>4 DEF ProgressOf, At, Temporaries
  <2>6. AloneOf(r)'
    <3>1. run[r].at = 1 /\ run[r].outcome = "none"
      BY <1>t, <1>u DEF ProgressOf, At, RunState
    <3>2. \A f \in File : ~(f < run[r].at)
      BY <3>1, MaterializerAssumption DEF File
    <3>3. QED
      BY <1>u, <2>2, <2>3, <2>4, <3>1, <3>2 DEF AloneOf, Checked, At, UnderWay
  <2>7. QED
    BY <1>u, <1>s, <2>1, <2>3, <2>4, <2>5, <2>6, RunGoesOn
<1>3. QED
  BY <1>1, <1>2 DEF MaterializeBundle

(* What alone means for the run that moves: it was the only one under way,  *)
(* or it is lapped.                                                         *)
LEMMA OnlyOne ==
  ASSUME MaterializerInv, NEW r \in Run, UnderWay(r), NEW o \in Run \ {r}, o \notin lapped
  PROVE  ~UnderWay(o)
BY DEF MaterializerInv, AloneOf

LEMMA CheckTargetInv ==
  ASSUME MaterializerInv, NEW r \in Run, CheckTarget(r)
  PROVE  MaterializerInv'
<1>t. MaterializerTypeOK /\ run[r] \in RunState /\ PlacesOf(r) /\ ProgressOf(r) /\ AloneOf(r)
  BY DEF MaterializerInv, MaterializerTypeOK
<1>u. At(r, "check") /\ UnderWay(r) /\ UNCHANGED <<file, staged, crashes, toolWrites, undone, stuck, lapped>>
  BY DEF CheckTarget, UnderWay, At
<1>s. staged' \subseteq Run \X File /\ crashes' \in Nat /\ lapped' \subseteq Run /\ lapped \subseteq lapped'
      /\ stuck' \subseteq Run /\ stuck \subseteq stuck'
      /\ \A o \in Run \ {r} : staged' \cap Temporaries(o) = staged \cap Temporaries(o)
  BY <1>t, <1>u DEF MaterializerTypeOK
<1>o. \A o \in Run \ {r} : o \notin lapped' => ~UnderWay(o)
  BY <1>u, OnlyOne
<1> DEFINE f == run[r].at
<1>f. f \in File /\ run[r].outcome = "none" /\ run[r].linked = {} /\ run[r].unchanged \subseteq File
  BY <1>t, <1>u DEF RunState, ProgressOf, At
<1>1. CASE file[f] # Absent /\ ~Holds(f, Bundle[r]) /\ Ends(r, "collision")
  <2> DEFINE rec == [pc |-> "ended", at |-> run[r].at, unchanged |-> run[r].unchanged,
                     linked |-> run[r].linked, outcome |-> "collision"]
  <2>1. rec \in RunState /\ RunMoves(r, rec)
    BY <1>t, <1>1, EndsMeans
  <2>2. run'[r] = rec /\ \A o \in Run \ {r} : run'[o] = run[o]
    BY <2>1 DEF RunMoves
  <2>3. toolWrites > 0 \/ Strange(r)
    <3>1. ASSUME toolWrites = 0 PROVE Strange(r)
      <4>1. PICK o \in Run : file[f] = Written(Bundle[o]) /\ run[o].pc # "idle"
        BY <1>1, <1>f, <3>1 DEF MaterializerInv, FilesAreOurs
      <4>2. QED
        BY <1>1, <4>1 DEF Holds, Strange
    <3>2. toolWrites \in Nat
      BY <1>t DEF MaterializerTypeOK
    <3>3. QED
      BY <3>1, <3>2
  <2>4. Strange(r) => Strange(r)'
    BY <2>1, StrangeStays
  <2>5. ProgressOf(r)' /\ AloneOf(r)'
    BY <1>t, <1>u, <1>f, <2>2, <2>3, <2>4 DEF ProgressOf, AloneOf, At, UnderWay, Checked, Temporaries, Failed
  <2>6. QED
    BY <1>u, <1>s, <1>o, <2>1, <2>5, RunGoesOn
<1>0. CASE Ends(r, "unsafe")
  <2> DEFINE rec == [pc |-> "ended", at |-> run[r].at, unchanged |-> run[r].unchanged,
                     linked |-> run[r].linked, outcome |-> "unsafe"]
  <2>1. rec \in RunState /\ RunMoves(r, rec)
    BY <1>t, <1>0, EndsMeans
  <2>2. run'[r] = rec
    BY <2>1 DEF RunMoves
  <2>3. ProgressOf(r)' /\ AloneOf(r)'
    BY <1>t, <1>u, <1>f, <2>2 DEF ProgressOf, AloneOf, At, UnderWay, Checked, Temporaries, Failed
  <2>4. QED
    BY <1>u, <1>s, <1>o, <2>1, <2>3, RunGoesOn
<1>2. CASE /\ file[f] = Absent \/ Holds(f, Bundle[r])
           /\ run' = [run EXCEPT ![r].unchanged = @ \cup (IF Holds(f, Bundle[r]) THEN {f} ELSE {}),
                                 ![r].at = IF f = Files THEN 1 ELSE f + 1,
                                 ![r].pc = IF f = Files THEN "stage" ELSE "check"]
  <2> DEFINE kept == IF Holds(f, Bundle[r]) THEN {f} ELSE {}
             rec == [pc |-> IF f = Files THEN "stage" ELSE "check", at |-> IF f = Files THEN 1 ELSE f + 1,
                     unchanged |-> run[r].unchanged \cup kept, linked |-> {}, outcome |-> "none"]
  <2>1. rec \in RunState
    <3>1. (IF f = Files THEN 1 ELSE f + 1) \in File
      BY <1>f, MaterializerAssumption DEF File
    <3>2. run[r].unchanged \cup kept \subseteq File
      BY <1>f
    <3>3. QED
      BY <3>1, <3>2 DEF RunState
  <2>2. run'[r] = rec
    BY <1>t, <1>f, <1>2 DEF RunState, MaterializerTypeOK
  <2>3. RunMoves(r, rec)
    BY <1>t, <1>2, <2>1, <2>2 DEF RunMoves, MaterializerTypeOK
  <2>4. \A g \in rec.unchanged \ run[r].unchanged : file[g].of = Bundle[r]
    BY DEF Holds, Written
  <2>5. ProgressOf(r)'
    BY <1>t, <1>u, <2>2 DEF ProgressOf, At, Temporaries
  <2>6. AloneOf(r)'
    <3>1. Strange(r) => Strange(r)'
      BY <2>3, StrangeStays
    <3>2. ASSUME r \notin lapped, toolWrites = 0, ~Strange(r),
                 NEW g \in File \ (rec.unchanged \cup rec.linked), Checked(r, g)'
          PROVE  file[g] = Absent
      <4>1. g \in File \ (run[r].unchanged \cup run[r].linked)
        BY <1>f, <3>2
      <4>2. g < f \/ g = f
        BY <1>f, <2>2, <3>2, MaterializerAssumption DEF Checked, At, File
      <4>3. CASE g < f
        BY <1>t, <1>u, <3>2, <4>1, <4>3 DEF AloneOf, Checked
      <4>4. CASE g = f
        BY <1>2, <3>2, <4>4
      <4>5. QED
        BY <4>2, <4>3, <4>4
    <3>3. UnderWay(r)' => \A o \in Run \ {r} : r \notin lapped => ~UnderWay(o)'
      BY <1>t, <1>u, <2>3 DEF AloneOf, UnderWay, RunMoves
    <3>4. QED
      BY <1>u, <2>2, <3>1, <3>2, <3>3 DEF AloneOf
  <2>7. rec.pc # "idle" /\ rec.linked = run[r].linked
    BY <1>f
  <2>8. QED
    BY <1>u, <1>s, <1>o, <2>1, <2>3, <2>4, <2>5, <2>6, <2>7, RunGoesOn
<1>3. QED
  BY <1>0, <1>1, <1>2 DEF CheckTarget

(* The steps that only count, stage or end: how far the run has come.       *)
LEMMA AdvanceMeans ==
  ASSUME MaterializerTypeOK, NEW r \in Run, NEW pc \in {"stage", "link"}, NEW after \in {"link", "clean"},
         Advance(r, pc, after)
  PROVE  LET rec == [pc |-> IF run[r].at = Files THEN after ELSE pc,
                     at |-> IF run[r].at = Files THEN 1 ELSE run[r].at + 1,
                     unchanged |-> run[r].unchanged, linked |-> run[r].linked, outcome |-> run[r].outcome]
         IN rec \in RunState /\ RunMoves(r, rec)
<1> DEFINE rec == [pc |-> IF run[r].at = Files THEN after ELSE pc,
                   at |-> IF run[r].at = Files THEN 1 ELSE run[r].at + 1,
                   unchanged |-> run[r].unchanged, linked |-> run[r].linked, outcome |-> run[r].outcome]
<1>1. run[r] \in RunState
  BY DEF MaterializerTypeOK
<1>2. (IF run[r].at = Files THEN 1 ELSE run[r].at + 1) \in File
  BY <1>1, MaterializerAssumption DEF File, RunState
<1>3. rec \in RunState
  BY <1>1, <1>2 DEF RunState
<1>4. run'[r] = rec
  BY <1>1 DEF Advance, RunState, MaterializerTypeOK
<1>5. run' \in [Run -> RunState] /\ \A o \in Run \ {r} : run'[o] = run[o]
  BY <1>3, <1>4 DEF Advance, MaterializerTypeOK
<1>6. QED
  BY <1>3, <1>4, <1>5 DEF RunMoves

LEMMA StageInv ==
  ASSUME MaterializerInv, NEW r \in Run, Stage(r)
  PROVE  MaterializerInv'
<1>t. MaterializerTypeOK /\ run[r] \in RunState /\ PlacesOf(r) /\ ProgressOf(r) /\ AloneOf(r)
  BY DEF MaterializerInv, MaterializerTypeOK
<1>u. At(r, "stage") /\ UnderWay(r) /\ UNCHANGED <<file, crashes, toolWrites, undone, lapped>>
  BY DEF Stage, UnderWay, At
<1>f. run[r].at \in File /\ run[r].outcome = "none" /\ run[r].linked = {}
  BY <1>t, <1>u DEF RunState, ProgressOf, At
<1>c. crashes' \in Nat /\ lapped' \subseteq Run /\ lapped \subseteq lapped'
  BY <1>t, <1>u DEF MaterializerTypeOK
<1>o. \A o \in Run \ {r} : o \notin lapped' => ~UnderWay(o)
  BY <1>u, OnlyOne
<1>1. CASE Ends(r, "io") /\ RemoveTemporaries(r)
  <2> DEFINE rec == [pc |-> "ended", at |-> run[r].at, unchanged |-> run[r].unchanged,
                     linked |-> run[r].linked, outcome |-> "io"]
  <2>1. rec \in RunState /\ RunMoves(r, rec)
    BY <1>t, <1>1, EndsMeans
  <2>2. run'[r] = rec
    BY <2>1 DEF RunMoves
  <2>3. /\ staged' \subseteq Run \X File /\ stuck \subseteq stuck' /\ stuck' \subseteq Run
        /\ staged' \cap Temporaries(r) = {} \/ r \in stuck'
        /\ \A o \in Run \ {r} : staged' \cap Temporaries(o) = staged \cap Temporaries(o)
    BY <1>t, <1>1, RemoveMeans
  <2>4. ProgressOf(r)' /\ AloneOf(r)'
    BY <1>f, <2>2, <2>3 DEF ProgressOf, AloneOf, At, UnderWay, Checked, Temporaries, Failed
  <2>5. QED
    BY <1>u, <1>c, <1>o, <2>1, <2>3, <2>4, RunGoesOn
<1>0. CASE Ends(r, "unsafe") /\ UNCHANGED <<staged, stuck>>
  <2> DEFINE rec == [pc |-> "ended", at |-> run[r].at, unchanged |-> run[r].unchanged,
                     linked |-> run[r].linked, outcome |-> "unsafe"]
  <2>1. rec \in RunState /\ RunMoves(r, rec)
    BY <1>t, <1>0, EndsMeans
  <2>2. run'[r] = rec
    BY <2>1 DEF RunMoves
  <2>3. /\ staged' \subseteq Run \X File /\ stuck \subseteq stuck' /\ stuck' \subseteq Run
        /\ \A o \in Run \ {r} : staged' \cap Temporaries(o) = staged \cap Temporaries(o)
    BY <1>t, <1>0 DEF MaterializerTypeOK
  <2>4. ProgressOf(r)' /\ AloneOf(r)'
    BY <1>f, <2>2 DEF ProgressOf, AloneOf, At, UnderWay, Checked, Temporaries, Failed
  <2>5. QED
    BY <1>u, <1>c, <1>o, <2>1, <2>3, <2>4, RunGoesOn
<1>2. CASE /\ Advance(r, "stage", "link") /\ UNCHANGED stuck
           /\ staged' \in {staged, staged \cup {<<r, run[r].at>>}}
  <2> DEFINE rec == [pc |-> IF run[r].at = Files THEN "link" ELSE "stage",
                     at |-> IF run[r].at = Files THEN 1 ELSE run[r].at + 1,
                     unchanged |-> run[r].unchanged, linked |-> run[r].linked, outcome |-> run[r].outcome]
  <2>1. rec \in RunState /\ RunMoves(r, rec)
    BY <1>t, <1>2, AdvanceMeans
  <2>2. run'[r] = rec
    BY <2>1 DEF RunMoves
  <2>3. ProgressOf(r)'
    BY <1>f, <2>2, MaterializerAssumption DEF ProgressOf, At, File, Failed
  <2>4. AloneOf(r)'
    <3>1. Strange(r) => Strange(r)'
      BY <2>1, StrangeStays
    <3>2. UnderWay(r)' => \A o \in Run \ {r} : r \notin lapped => ~UnderWay(o)'
      BY <1>t, <1>u, <2>1 DEF AloneOf, UnderWay, RunMoves
    <3>3. \A g \in File : Checked(r, g)
      BY <1>u DEF Checked, At
    <3>4. QED
      BY <1>t, <1>u, <1>f, <2>2, <3>1, <3>2, <3>3 DEF AloneOf
  <2>5. /\ staged' \subseteq Run \X File /\ stuck \subseteq stuck' /\ stuck' \subseteq Run
        /\ \A o \in Run \ {r} : staged' \cap Temporaries(o) = staged \cap Temporaries(o)
    BY <1>t, <1>f, <1>2 DEF MaterializerTypeOK, Temporaries
  <2>6. QED
    BY <1>u, <1>c, <1>o, <2>1, <2>3, <2>4, <2>5, RunGoesOn
<1>3. QED
  BY <1>0, <1>1, <1>2 DEF Stage

LEMMA EndingInv ==
  ASSUME MaterializerInv, NEW r \in Run, Clean(r) \/ RunDies(r)
  PROVE  MaterializerInv'
<1>t. MaterializerTypeOK /\ run[r] \in RunState /\ PlacesOf(r) /\ ProgressOf(r) /\ AloneOf(r)
  BY DEF MaterializerInv, MaterializerTypeOK
<1>1. PICK outcome \in {"ok", "died"} : Ends(r, outcome) /\ (outcome = "ok" => At(r, "clean"))
  BY DEF Clean, RunDies
<1>u. UnderWay(r) /\ UNCHANGED <<file, toolWrites, undone, lapped>>
  BY DEF Clean, RunDies, UnderWay, At
<1>c. crashes' \in {crashes, crashes + 1}
  BY DEF Clean, RunDies
<1>s. /\ staged' \subseteq Run \X File /\ crashes' \in Nat /\ lapped' \subseteq Run /\ lapped \subseteq lapped'
      /\ stuck' \subseteq Run /\ stuck \subseteq stuck'
      /\ \A o \in Run \ {r} : staged' \cap Temporaries(o) = staged \cap Temporaries(o)
  <2>1. crashes \in Nat /\ staged \subseteq Run \X File /\ lapped \subseteq Run /\ stuck \subseteq Run
    BY <1>t DEF MaterializerTypeOK
  <2>2. crashes' \in Nat
    BY ONLY <1>c, <2>1
  <2>3. CASE RemoveTemporaries(r)
    BY <1>t, <1>u, <2>1, <2>2, <2>3, RemoveMeans
  <2>4. CASE UNCHANGED <<staged, stuck>>
    BY <1>u, <2>1, <2>2, <2>4
  <2>5. QED
    BY <2>3, <2>4 DEF Clean, RunDies
<1>o. \A o \in Run \ {r} : o \notin lapped' => ~UnderWay(o)
  BY <1>u, OnlyOne
<1> DEFINE rec == [pc |-> "ended", at |-> run[r].at, unchanged |-> run[r].unchanged,
                   linked |-> run[r].linked, outcome |-> outcome]
<1>2. rec \in RunState /\ RunMoves(r, rec)
  BY <1>t, <1>1, EndsMeans
<1>3. run'[r] = rec
  BY <1>2 DEF RunMoves
<1>4. ProgressOf(r)' /\ AloneOf(r)'
  BY <1>t, <1>1, <1>3 DEF ProgressOf, AloneOf, At, UnderWay, Checked, Failed
<1>5. QED
  BY <1>u, <1>s, <1>o, <1>2, <1>4, RunGoesOn

LEMMA OthersAlone ==
  ASSUME MaterializerInv, NEW r \in Run, UnderWay(r), NEW rec, RunMoves(r, rec), rec.pc # "idle",
         UNCHANGED <<toolWrites, lapped>>, NEW o \in Run \ {r}
  PROVE  AloneOf(o)'
<1>1. AloneOf(o) /\ run'[o] = run[o] /\ (Strange(o) => Strange(o)')
  BY StrangeStays DEF MaterializerInv, RunMoves
<1>2. o \notin lapped => ~UnderWay(o)
  BY OnlyOne
<1>3. QED
  BY <1>1, <1>2 DEF AloneOf, Checked, At, UnderWay

LEMMA LinkInv ==
  ASSUME MaterializerInv, NEW r \in Run, Link(r)
  PROVE  MaterializerInv'
<1>t. MaterializerTypeOK /\ run[r] \in RunState /\ PlacesOf(r) /\ ProgressOf(r) /\ AloneOf(r)
  BY DEF MaterializerInv, MaterializerTypeOK
<1>u. At(r, "link") /\ UnderWay(r) /\ UNCHANGED <<staged, crashes, toolWrites, undone, stuck, lapped>>
  BY DEF Link, UnderWay, At
<1> DEFINE f == run[r].at
<1>f. f \in File /\ run[r].outcome = "none" /\ run[r].linked \subseteq File /\ run[r].unchanged \subseteq File
  BY <1>t, <1>u DEF RunState, ProgressOf, At
<1>s. staged' \subseteq Run \X File /\ crashes' \in Nat /\ lapped' \subseteq Run /\ lapped \subseteq lapped'
      /\ stuck' \subseteq Run /\ stuck \subseteq stuck'
      /\ \A o \in Run \ {r} : staged' \cap Temporaries(o) = staged \cap Temporaries(o)
  BY <1>t, <1>u DEF MaterializerTypeOK
<1>o. \A o \in Run \ {r} : o \notin lapped' => ~UnderWay(o)
  BY <1>u, OnlyOne
<1>1. CASE f \in run[r].unchanged /\ Advance(r, "link", "clean") /\ UNCHANGED file
  <2> DEFINE rec == [pc |-> IF run[r].at = Files THEN "clean" ELSE "link",
                     at |-> IF run[r].at = Files THEN 1 ELSE run[r].at + 1,
                     unchanged |-> run[r].unchanged, linked |-> run[r].linked, outcome |-> run[r].outcome]
  <2>1. rec \in RunState /\ RunMoves(r, rec)
    BY <1>t, <1>1, AdvanceMeans
  <2>2. run'[r] = rec
    BY <2>1 DEF RunMoves
  <2>3. ProgressOf(r)'
    BY <1>t, <1>u, <1>f, <1>1, <2>2, MaterializerAssumption DEF ProgressOf, At, File, Failed
  <2>4. AloneOf(r)'
    <3>1. Strange(r) => Strange(r)'
      BY <2>1, StrangeStays
    <3>2. UnderWay(r)' => \A o \in Run \ {r} : r \notin lapped => ~UnderWay(o)'
      BY <1>t, <1>u, <2>1 DEF AloneOf, UnderWay, RunMoves
    <3>3. \A g \in File : Checked(r, g)
      BY <1>u DEF Checked, At
    <3>4. QED
      BY <1>t, <1>u, <1>f, <1>1, <2>2, <3>1, <3>2, <3>3 DEF AloneOf
  <2>5. QED
    BY <1>u, <1>s, <1>o, <1>1, <2>1, <2>3, <2>4, RunGoesOn
<1>2. CASE /\ f \notin run[r].unchanged /\ file[f] = Absent
           /\ file' = [file EXCEPT ![f] = Written(Bundle[r])]
           /\ run' = [run EXCEPT ![r].linked = @ \cup {f},
                                 ![r].at = IF f = Files THEN 1 ELSE f + 1,
                                 ![r].pc = IF f = Files THEN "clean" ELSE "link"]
  <2> DEFINE rec == [pc |-> IF f = Files THEN "clean" ELSE "link", at |-> IF f = Files THEN 1 ELSE f + 1,
                     unchanged |-> run[r].unchanged, linked |-> run[r].linked \cup {f}, outcome |-> "none"]
  <2>1. rec \in RunState
    <3>1. (IF f = Files THEN 1 ELSE f + 1) \in File
      BY <1>f, MaterializerAssumption DEF File
    <3>2. QED
      BY <1>f, <3>1 DEF RunState
  <2>2. run'[r] = rec
    BY <1>t, <1>f, <1>2 DEF RunState, MaterializerTypeOK
  <2>3. RunMoves(r, rec) /\ \A o \in Run \ {r} : run'[o] = run[o]
    BY <1>t, <1>2, <2>1, <2>2 DEF RunMoves, MaterializerTypeOK
  <2>4. Written(Bundle[r]) \in Content
    BY DEF Written, Content
  <2>5. /\ file' \in [File -> Content] /\ file'[f] = Written(Bundle[r])
        /\ \A g \in File \ {f} : file'[g] = file[g]
    BY <1>t, <1>f, <1>2, <2>4 DEF MaterializerTypeOK
  <2>6. MaterializerTypeOK'
    BY <1>t, <1>u, <2>3, <2>5 DEF MaterializerTypeOK, RunMoves
  <2>7. FilesAreOurs'
    BY <1>u, <1>f, <2>2, <2>3, <2>5 DEF MaterializerInv, FilesAreOurs
  <2>8. file[f].of = "nobody"
    BY <1>2 DEF Absent
  <2>9. \A o \in Run : f \notin run[o].linked /\ PlacesOf(o)
    BY <2>8, MaterializerAssumption DEF MaterializerInv, PlacesOf
  <2>10. PlacesOf(r)'
    <3>1. \A g \in run'[r].linked : file'[g].of = Bundle[r]
      BY <1>f, <2>2, <2>5, <2>9 DEF PlacesOf, Written
    <3>2. \A g \in run'[r].linked : \A o \in Run \ {r} : g \notin run'[o].linked
      BY <2>2, <2>3, <2>9 DEF PlacesOf
    <3>3. \A g \in run'[r].unchanged : file'[g].of = Bundle[r] \/ g \in undone
      BY <1>2, <1>f, <2>2, <2>5, <2>9 DEF PlacesOf
    <3>4. QED
      BY <1>u, <3>1, <3>2, <3>3 DEF PlacesOf
  <2>11. ASSUME NEW o \in Run \ {r} PROVE PlacesOf(o)'
    <3>1. run[o].linked \subseteq File /\ run[o].unchanged \subseteq File
      BY <1>t DEF MaterializerTypeOK, RunState
    <3>2. \A g \in run[o].linked : file'[g].of = Bundle[o]
      BY <2>5, <2>9, <3>1 DEF PlacesOf
    <3>3. \A g \in run[o].linked : \A q \in Run \ {o} : g \notin run'[q].linked
      BY <2>2, <2>3, <2>9 DEF PlacesOf
    <3>4. \A g \in run[o].unchanged : file'[g].of = Bundle[o] \/ g \in undone
      <4>1. Bundle[o] # "nobody"
        BY MaterializerAssumption
      <4>2. QED
        BY <2>5, <2>8, <2>9, <3>1, <4>1 DEF PlacesOf
    <3>5. QED
      BY <1>u, <2>3, <3>2, <3>3, <3>4 DEF PlacesOf
  <2>12. ProgressOf(r)'
    BY <1>t, <1>u, <1>f, <2>2, MaterializerAssumption DEF ProgressOf, At, File, Failed
  <2>13. ASSUME NEW o \in Run \ {r} PROVE ProgressOf(o)'
    BY <1>u, <2>3 DEF MaterializerInv, ProgressOf, At, Temporaries, Failed
  <2>14. AloneOf(r)'
    <3>1. Strange(r) => Strange(r)'
      BY <2>3, StrangeStays
    <3>2. UnderWay(r)' => \A o \in Run \ {r} : r \notin lapped => ~UnderWay(o)'
      BY <1>t, <1>u, <2>3 DEF AloneOf, UnderWay
    <3>3. \A g \in File : Checked(r, g)
      BY <1>u DEF Checked, At
    <3>4. QED
      BY <1>t, <1>u, <1>f, <2>2, <2>5, <3>1, <3>2, <3>3 DEF AloneOf
  <2>15. \A o \in Run \ {r} : AloneOf(o)'
    BY <1>u, <2>3, OthersAlone
  <2>16. QED
    BY <2>6, <2>7, <2>10, <2>11, <2>12, <2>13, <2>14, <2>15 DEF MaterializerInv
<1>3. CASE /\ f \notin run[r].unchanged
           /\ run' = [run EXCEPT ![r].pc = "undo",
                                 ![r].outcome = IF file[f] # Absent THEN "collision" ELSE "io"]
           /\ UNCHANGED file
  <2> DEFINE out1 == IF file[f] # Absent THEN "collision" ELSE "io"
             rec == [pc |-> "undo", at |-> f, unchanged |-> run[r].unchanged,
                     linked |-> run[r].linked, outcome |-> out1]
  <2>1. rec \in RunState
    BY <1>f DEF RunState
  <2>2. run'[r] = rec
    BY <1>t, <1>f, <1>3 DEF RunState, MaterializerTypeOK
  <2>3. RunMoves(r, rec)
    BY <1>t, <1>3, <2>1, <2>2 DEF RunMoves, MaterializerTypeOK
  <2>4. ProgressOf(r)'
    BY <1>t, <1>u, <2>2 DEF ProgressOf, At, Failed
  <2>5. AloneOf(r)'
    <3>1. Strange(r) => Strange(r)'
      BY <2>3, StrangeStays
    <3>2. UnderWay(r)' => \A o \in Run \ {r} : r \notin lapped => ~UnderWay(o)'
      BY <1>t, <1>u, <2>3 DEF AloneOf, UnderWay, RunMoves
    <3>3. f \notin run[r].linked
      BY <1>t, <1>u, <1>f, MaterializerAssumption DEF ProgressOf, File
    <3>4. r \notin lapped /\ toolWrites = 0 /\ ~Strange(r) => file[f] = Absent
      BY <1>t, <1>u, <1>f, <1>3, <3>3 DEF AloneOf, Checked, At
    <3>5. toolWrites \in Nat
      BY <1>t DEF MaterializerTypeOK
    <3>6. ~Checked(r, f)' /\ \A g \in File : ~Checked(r, g)'
      BY <2>2 DEF Checked, At
    <3>7. QED
      BY <1>u, <2>2, <3>1, <3>2, <3>4, <3>5, <3>6 DEF AloneOf
  <2>6. QED
    BY <1>u, <1>s, <1>o, <1>3, <2>1, <2>3, <2>4, <2>5, RunGoesOn
<1>4. QED
  BY <1>1, <1>2, <1>3 DEF Link

LEMMA UndoInv ==
  ASSUME MaterializerInv, NEW r \in Run, Undo(r)
  PROVE  MaterializerInv'
<1>t. MaterializerTypeOK /\ run[r] \in RunState /\ PlacesOf(r) /\ ProgressOf(r) /\ AloneOf(r)
  BY DEF MaterializerInv, MaterializerTypeOK
<1>u. At(r, "undo") /\ UnderWay(r) /\ UNCHANGED <<crashes, toolWrites, lapped>>
  BY DEF Undo, UnderWay, At
<1>o. \A o \in Run \ {r} : o \notin lapped' => ~UnderWay(o)
  BY <1>u, OnlyOne
<1> DEFINE f == run[r].at - 1
<1>f. /\ run[r].linked \subseteq File /\ run[r].at \in File /\ run[r].outcome \in {"collision", "io"}
      /\ (\A g \in run[r].linked : g < run[r].at) \/ r \in stuck
  BY <1>t, <1>u DEF ProgressOf, RunState
<1>g. f = 0 \/ f \in File
  BY <1>f, MaterializerAssumption DEF File
<1>1. CASE /\ f = 0 /\ run' = [run EXCEPT ![r].pc = "ended"]
           /\ RemoveTemporaries(r) /\ UNCHANGED <<file, undone>>
  <2> DEFINE rec == [run[r] EXCEPT !.pc = "ended"]
  <2>1. rec \in RunState
    BY <1>t DEF RunState
  <2>2. RunMoves(r, rec) /\ run'[r] = rec
    BY <1>t, <1>1, <2>1, RunMoved DEF RunMoves
  <2>3. /\ rec.pc = "ended" /\ rec.linked = run[r].linked /\ rec.unchanged = run[r].unchanged
        /\ rec.outcome = run[r].outcome
    BY <1>t DEF RunState
  <2>4. /\ staged' \subseteq Run \X File /\ crashes' \in Nat /\ lapped' \subseteq Run /\ lapped \subseteq lapped'
        /\ stuck' \subseteq Run /\ stuck \subseteq stuck'
        /\ staged' \cap Temporaries(r) = {} \/ r \in stuck'
        /\ \A o \in Run \ {r} : staged' \cap Temporaries(o) = staged \cap Temporaries(o)
    BY <1>t, <1>u, <1>1, RemoveMeans DEF MaterializerTypeOK
  <2>5. ProgressOf(r)'
    <3>1. run[r].linked = {} \/ r \in stuck'
      BY <1>1, <1>f, <2>4 DEF File
    <3>2. QED
      BY <1>f, <2>2, <2>3, <2>4, <3>1 DEF ProgressOf, At, Temporaries, Failed
  <2>6. AloneOf(r)'
    <3>1. Strange(r) => Strange(r)'
      BY <2>2, <2>3, StrangeStays
    <3>2. ~UnderWay(r)' /\ \A g \in File : ~Checked(r, g)'
      BY <2>2, <2>3 DEF UnderWay, Checked, At
    <3>3. QED
      BY <1>t, <1>u, <2>2, <2>3, <3>1, <3>2 DEF AloneOf
  <2>7. QED
    BY <1>u, <1>o, <1>1, <2>1, <2>2, <2>3, <2>4, <2>5, <2>6, RunGoesOn
<1>2. CASE /\ f # 0 /\ f \notin run[r].linked /\ run' = [run EXCEPT ![r].at = f, ![r].linked = @ \ {f}]
           /\ UNCHANGED <<file, undone, staged, stuck>>
  <2> DEFINE rec == [run[r] EXCEPT !.at = f, !.linked = @ \ {f}]
  <2>1. rec \in RunState /\ rec.linked = run[r].linked
    BY <1>t, <1>g, <1>2 DEF RunState
  <2>2. RunMoves(r, rec) /\ run'[r] = rec
    <3>1. run' = [run EXCEPT ![r] = rec]
      BY <1>t, <1>2 DEF MaterializerTypeOK
    <3>2. QED
      BY <1>t, <2>1, <3>1, RunMoved DEF RunMoves
  <2>3. /\ rec.pc = "undo" /\ rec.unchanged = run[r].unchanged
        /\ rec.outcome = run[r].outcome /\ rec.at = f
    BY <1>t, <1>u DEF RunState, At
  <2>4. (\A g \in rec.linked : g < f) \/ r \in stuck
    BY <1>2, <1>f, <1>g, <2>1, MaterializerAssumption DEF File
  <2>5. ProgressOf(r)'
    BY <1>2, <1>f, <2>2, <2>3, <2>4 DEF ProgressOf, At, Failed
  <2>6. AloneOf(r)'
    BY <1>t, <1>u, <1>f, <2>2, <2>3, StrangeStays DEF AloneOf, UnderWay, Checked, At, RunMoves
  <2>7. /\ staged' \subseteq Run \X File /\ crashes' \in Nat /\ lapped' \subseteq Run /\ lapped \subseteq lapped'
        /\ stuck' \subseteq Run /\ stuck \subseteq stuck'
        /\ \A o \in Run \ {r} : staged' \cap Temporaries(o) = staged \cap Temporaries(o)
    BY <1>t, <1>u, <1>2 DEF MaterializerTypeOK
  <2>8. QED
    BY <1>u, <1>o, <1>2, <2>1, <2>2, <2>3, <2>5, <2>6, <2>7, RunGoesOn
<1>3. CASE /\ f # 0 /\ f \in run[r].linked /\ run' = [run EXCEPT ![r].at = f]
           /\ stuck' = stuck \cup {r} /\ UNCHANGED <<file, undone, staged>>
  <2> DEFINE rec == [run[r] EXCEPT !.at = f]
  <2>1. rec \in RunState /\ rec.linked = run[r].linked
    BY <1>t, <1>g, <1>3 DEF RunState
  <2>2. RunMoves(r, rec) /\ run'[r] = rec
    <3>1. run' = [run EXCEPT ![r] = rec]
      BY <1>t, <1>3 DEF MaterializerTypeOK
    <3>2. QED
      BY <1>t, <2>1, <3>1, RunMoved DEF RunMoves
  <2>3. /\ rec.pc = "undo" /\ rec.unchanged = run[r].unchanged /\ rec.outcome = run[r].outcome
    BY <1>t, <1>u DEF RunState, At
  <2>4. ProgressOf(r)'
    BY <1>3, <1>f, <2>2, <2>3 DEF ProgressOf, At, Failed
  <2>5. AloneOf(r)'
    BY <1>t, <1>u, <1>f, <2>2, <2>3, StrangeStays DEF AloneOf, UnderWay, Checked, At, RunMoves
  <2>6. /\ staged' \subseteq Run \X File /\ crashes' \in Nat /\ lapped' \subseteq Run /\ lapped \subseteq lapped'
        /\ stuck' \subseteq Run /\ stuck \subseteq stuck'
        /\ \A o \in Run \ {r} : staged' \cap Temporaries(o) = staged \cap Temporaries(o)
    BY <1>t, <1>u, <1>3 DEF MaterializerTypeOK
  <2>7. QED
    BY <1>u, <1>o, <1>3, <2>1, <2>2, <2>3, <2>4, <2>5, <2>6, RunGoesOn
<1>4. CASE /\ f # 0 /\ f \in run[r].linked /\ run' = [run EXCEPT ![r].at = f, ![r].linked = @ \ {f}]
           /\ file' = [file EXCEPT ![f] = Absent] /\ undone' = undone \cup {f}
           /\ UNCHANGED <<staged, stuck>>
  <2> DEFINE rec == [run[r] EXCEPT !.at = f, !.linked = @ \ {f}]
  <2>1. rec \in RunState /\ f \in File
    BY <1>t, <1>g, <1>4 DEF RunState
  <2>2. RunMoves(r, rec) /\ run'[r] = rec /\ \A o \in Run \ {r} : run'[o] = run[o]
    <3>1. run' = [run EXCEPT ![r] = rec]
      BY <1>t, <1>4 DEF MaterializerTypeOK
    <3>2. QED
      BY <1>t, <2>1, <3>1, RunMoved DEF RunMoves
  <2>3. /\ rec.pc = "undo" /\ rec.linked = run[r].linked \ {f} /\ rec.unchanged = run[r].unchanged
        /\ rec.outcome = run[r].outcome /\ rec.at = f
    BY <1>t, <1>u DEF RunState, At
  <2>4. /\ file' \in [File -> Content] /\ file'[f] = Absent
        /\ \A g \in File \ {f} : file'[g] = file[g]
    BY <1>t, <1>4, <2>1 DEF MaterializerTypeOK, Absent, Content
  <2>5. MaterializerTypeOK'
    BY <1>t, <1>u, <1>4, <2>1, <2>2, <2>4 DEF MaterializerTypeOK, RunMoves
  <2>6. FilesAreOurs'
    <3>1. \A o \in Run : run[o].pc # "idle" => run'[o].pc # "idle"
      BY <2>2, <2>3
    <3>2. QED
      BY <1>u, <2>4, <3>1 DEF MaterializerInv, FilesAreOurs
  <2>7. \A o \in Run \ {r} : f \notin run[o].linked
    BY <1>t, <1>4 DEF PlacesOf
  <2>8. ASSUME NEW o \in Run PROVE PlacesOf(o)'
    <3>1. PlacesOf(o) /\ run[o].linked \subseteq File /\ run[o].unchanged \subseteq File
      BY <1>t DEF MaterializerInv, MaterializerTypeOK, RunState
    <3>2. run'[o].linked = run[o].linked \ {f} /\ run'[o].unchanged = run[o].unchanged
      <4>1. CASE o = r
        BY ONLY <2>2, <2>3, <4>1
      <4>2. CASE o # r
        <5>1. run'[o] = run[o] /\ f \notin run[o].linked
          BY <2>2, <2>7, <4>2
        <5>2. QED
          BY ONLY <5>1
      <4>3. QED
        BY <4>1, <4>2
    <3>3. \A q \in Run : run'[q].linked \subseteq run[q].linked
      BY <2>2, <2>3
    <3>4. \A g \in run'[o].linked :
              file'[g].of = Bundle[o] /\ \A q \in Run \ {o} : g \notin run'[q].linked
      BY <2>4, <3>1, <3>2, <3>3 DEF PlacesOf
    <3>5. \A g \in run'[o].unchanged : file'[g].of = Bundle[o] \/ g \in undone'
      BY <1>4, <2>4, <3>1, <3>2 DEF PlacesOf
    <3>6. QED
      BY <3>4, <3>5 DEF PlacesOf
  <2>9. ProgressOf(r)'
    <3>1. (\A g \in rec.linked : g < f) \/ r \in stuck
      BY <1>f, <2>1, <2>3, MaterializerAssumption DEF File
    <3>2. QED
      BY <1>4, <1>f, <2>2, <2>3, <3>1 DEF ProgressOf, At, Failed
  <2>10. ASSUME NEW o \in Run \ {r} PROVE ProgressOf(o)'
    <3>1. ProgressOf(o) /\ run'[o] = run[o]
      BY <2>2 DEF MaterializerInv
    <3>2. staged' = staged /\ stuck' = stuck
      BY <1>4
    <3>3. QED
      BY <3>1, <3>2 DEF ProgressOf, At, Temporaries, Failed
  <2>11. AloneOf(r)'
    <3>1. Strange(r) => Strange(r)'
      BY <2>2, <2>3, StrangeStays
    <3>2. \A g \in File : ~Checked(r, g)'
      BY <2>2, <2>3 DEF Checked, At
    <3>3. UnderWay(r)' => \A o \in Run \ {r} : r \notin lapped => ~UnderWay(o)'
      BY <1>t, <1>u, <2>2 DEF AloneOf, UnderWay
    <3>4. QED
      BY <1>t, <1>u, <2>2, <2>3, <3>1, <3>2, <3>3 DEF AloneOf
  <2>12. \A o \in Run \ {r} : AloneOf(o)'
    BY <1>u, <2>2, <2>3, OthersAlone
  <2>13. QED
    BY <2>5, <2>6, <2>8, <2>9, <2>10, <2>11, <2>12 DEF MaterializerInv
<1>5. QED
  BY <1>1, <1>2, <1>3, <1>4 DEF Undo

LEMMA ToolWritesInv ==
  ASSUME MaterializerInv, NEW f \in File, ToolWrites(f)
  PROVE  MaterializerInv'
<1>t. MaterializerTypeOK
  BY DEF MaterializerInv
<1>1. UNCHANGED <<staged, run, crashes, undone, stuck, lapped>> /\ toolWrites' = toolWrites + 1 /\ toolWrites \in Nat
  BY <1>t DEF ToolWrites, MaterializerTypeOK
<1>2. toolWrites' \in Nat /\ toolWrites' > 0
  BY ONLY <1>1
<1>3. /\ file' \in [File -> Content] /\ \A g \in File \ {f} : file'[g] = file[g]
      /\ file[f] \in {Absent, Tool} \/ file'[f].of = file[f].of
  BY <1>t DEF ToolWrites, MaterializerTypeOK, Content, Tool
<1>4. MaterializerTypeOK'
  BY <1>t, <1>1, <1>2, <1>3 DEF MaterializerTypeOK
<1>5. \A g \in File, r \in Run : file[g].of = Bundle[r] => file'[g].of = Bundle[r]
  BY <1>3, MaterializerAssumption DEF Absent, Tool
<1>6. ASSUME NEW r \in Run PROVE PlacesOf(r)'
  <2>1. PlacesOf(r) /\ run[r].linked \subseteq File /\ run[r].unchanged \subseteq File
    BY <1>t DEF MaterializerInv, MaterializerTypeOK, RunState
  <2>2. QED
    BY <1>1, <1>5, <2>1 DEF PlacesOf
<1>7. ASSUME NEW r \in Run PROVE ProgressOf(r)' /\ AloneOf(r)'
  BY <1>1, <1>2 DEF MaterializerInv, ProgressOf, AloneOf, At, Temporaries, UnderWay, Failed
<1>8. QED
  BY <1>2, <1>4, <1>6, <1>7 DEF MaterializerInv, FilesAreOurs

LEMMA MaterializerNextInv == MaterializerInv /\ [MaterializerNext]_materializerVars => MaterializerInv'
<1> SUFFICES ASSUME MaterializerInv, [MaterializerNext]_materializerVars PROVE MaterializerInv'
  OBVIOUS
<1>1. CASE UNCHANGED materializerVars
  BY <1>1 DEF materializerVars, MaterializerInv, MaterializerTypeOK, FilesAreOurs, PlacesOf, ProgressOf,
     AloneOf, At, UnderWay, Checked, Strange, Temporaries, Failed
<1>2. QED
  BY <1>1, MaterializeBundleInv, CheckTargetInv, StageInv, LinkInv, UndoInv, EndingInv, ToolWritesInv
  DEF MaterializerNext

LEMMA MaterializerInvHolds == MaterializerInv => AllOrNothing /\ ReplayApplies
<1> SUFFICES ASSUME MaterializerInv PROVE AllOrNothing /\ ReplayApplies
  OBVIOUS
<1>1. ASSUME NEW r \in Run
      PROVE  /\ run[r].outcome = "ok" => \A f \in File \ undone : file[f].of = Bundle[r]
             /\ Failed(r) => run[r].linked = {} \/ r \in stuck
             /\ Failed(r) /\ run[r].outcome # "unsafe" => staged \cap Temporaries(r) = {} \/ r \in stuck
  <2>1. PlacesOf(r) /\ ProgressOf(r)
    BY DEF MaterializerInv
  <2>2. QED
    BY <2>1 DEF PlacesOf, ProgressOf, At
<1>2. ReplayApplies
  BY DEF MaterializerInv, AloneOf, ReplayApplies, Strange
<1>3. QED
  BY <1>1, <1>2 DEF AllOrNothing

LEMMA StepClobbersNot ==
  ASSUME MaterializerInv, [MaterializerNext]_materializerVars
  PROVE  [\A f \in File: file[f] # Absent /\ file'[f] # file[f] =>
             \/ toolWrites' # toolWrites
             \/ file[f] # Tool /\ \E r \in Run: run[r].pc = "undo" /\ f \in run[r].linked]_materializerVars
<1> SUFFICES ASSUME MaterializerNext, NEW f \in File, file[f] # Absent, file'[f] # file[f],
                    toolWrites' = toolWrites
             PROVE  file[f] # Tool /\ \E r \in Run: run[r].pc = "undo" /\ f \in run[r].linked
  BY DEF materializerVars
<1>t. file \in [File -> Content] /\ toolWrites \in Nat
  BY DEF MaterializerInv, MaterializerTypeOK
<1>1. ~ \E g \in File : ToolWrites(g)
  BY <1>t DEF ToolWrites
<1>2. PICK r \in Run : Link(r) \/ Undo(r)
  BY <1>1 DEF MaterializerNext, MaterializeBundle, CheckTarget, Stage, Clean, RunDies
<1>3. ~Link(r)
  BY <1>t DEF Link
<1>4. run[r].pc = "undo" /\ f \in run[r].linked
  BY <1>t, <1>2, <1>3 DEF Undo, At
<1>5. file[f].of = Bundle[r]
  BY <1>4 DEF MaterializerInv, PlacesOf
<1>6. QED
  BY <1>4, <1>5, MaterializerAssumption DEF Tool

(* A bundle's run is all or nothing, writes over nothing, and what a run    *)
(* that died left behind does not stop the next, for any number of runs,    *)
(* files, deaths and writes of the tool.  What a failed run leaves is what  *)
(* it could not remove, and the temporaries it had staged when a directory  *)
(* could not be made (MaterializerHolds).                                   *)
THEOREM BundlesAreWhole == MaterializerSpec => MaterializerHolds
<1>1. MaterializerInv /\ [MaterializerNext]_materializerVars =>
          [\A f \in File: file[f] # Absent /\ file'[f] # file[f] =>
             \/ toolWrites' # toolWrites
             \/ file[f] # Tool /\ \E r \in Run: run[r].pc = "undo" /\ f \in run[r].linked]_materializerVars
  BY StepClobbersNot
<1>2. QED
  BY <1>1, MaterializerInitInv, MaterializerNextInv, MaterializerInvHolds, PTL
  DEF MaterializerSpec, MaterializerHolds, NeverClobbers

(***************************************************************************)
(* From the watched files to the offline queue.                            *)
(***************************************************************************)

USE DEF loopVars

Places == {"off", "list", "take", "sync", "rest", "retreat", "ended"}

LEMMA LoopInitInv == LoopInit => LoopInv
<1> SUFFICES ASSUME LoopInit PROVE LoopInv
  OBVIOUS
<1>2. LoopTypeOK
  BY DEF LoopInit, LoopTypeOK, Unseen, Stat, Observation, Posture, Listing
<1>3. ASSUME NEW f \in Log
      PROVE  log[f].version = 0 /\ log[f].print = 0 /\ seen[f].print = 0 /\ ~seen[f].emitted
  BY DEF LoopInit, Unseen
<1>4. ASSUME NEW f \in Log PROVE PrintsAreOfWrites(f)
  <2>1. writes = 0 /\ ~There(f)
    BY <1>3 DEF LoopInit, There
  <2>2. QED
    BY <1>3, <2>1 DEF PrintsAreOfWrites
<1>5. \A f \in Log : EmittedWasTaken(f)
  BY <1>3 DEF EmittedWasTaken
<1>6. QED
  BY <1>2, <1>4, <1>5 DEF LoopInv

(* One program goes somewhere else, and the other stays where it is. *)
Elsewhere(p, place) ==
    /\ at' \in [Program -> Posture] /\ at'[p].place = place
    /\ \A o \in Program \ {p} : at'[o] = at[o]

LEMMA PlaceEffect ==
  ASSUME LoopTypeOK, NEW p \in Program, NEW place \in Places, at' = [at EXCEPT ![p].place = place]
  PROVE  Elsewhere(p, place)
<1>1. at[p] \in Posture /\ at' = [at EXCEPT ![p] = [at[p] EXCEPT !.place = place]]
  BY DEF LoopTypeOK
<1>2. [at[p] EXCEPT !.place = place] \in Posture /\ [at[p] EXCEPT !.place = place].place = place
  BY <1>1 DEF Posture, Places
<1>3. QED
  BY <1>1, <1>2 DEF LoopTypeOK, Elsewhere

LEMMA GoesEffect ==
  ASSUME LoopTypeOK, NEW p \in Program, NEW place \in Places, NEW scan \in BOOLEAN, GoesTo(p, place, scan)
  PROVE  Elsewhere(p, place)
  BY DEF LoopTypeOK, GoesTo, Posture, Places, Elsewhere

(* A broken pass ends the watch, unless it was a scan. *)
LEMMA BrokenEffect ==
  ASSUME LoopTypeOK, NEW p \in Program, NEW retryable \in BOOLEAN, Broken(p, retryable)
  PROVE  /\ \E place \in Places : Elsewhere(p, place)
         /\ p = "watch" /\ ~at["watch"].scan => at'["watch"].place = "ended"
<1>1. PICK place \in Places : at' = [at EXCEPT ![p].place = place] /\ (p = "watch" /\ ~at["watch"].scan => place = "ended")
  BY DEF Broken, Places
<1>2. Elsewhere(p, place)
  BY <1>1, PlaceEffect
<1>3. QED
  BY <1>1, <1>2 DEF Elsewhere

(* What a program holds is a list of the files and the one it is at. *)
HasTodo(p, files, now) ==
    /\ todo' \in [Program -> Listing]
    /\ todo'[p].files = files /\ todo'[p].now = now
    /\ \A o \in Program \ {p} : todo'[o] = todo[o]

LEMMA ListingEffect ==
  ASSUME LoopTypeOK, NEW p \in Program, NEW files \in SUBSET Log, NEW now \in SUBSET Log,
         todo' = [todo EXCEPT ![p] = [files |-> files, now |-> now]]
  PROVE  HasTodo(p, files, now)
  BY DEF LoopTypeOK, Listing, HasTodo

LEMMA TodoRow ==
  ASSUME LoopTypeOK, NEW p \in Program, NEW x \in SUBSET Log
  PROVE  /\ todo[p].files \in SUBSET Log /\ todo[p].now \in SUBSET Log
         /\ [todo EXCEPT ![p].files = x] = [todo EXCEPT ![p] = [files |-> x, now |-> todo[p].now]]
         /\ [todo EXCEPT ![p].now = x] = [todo EXCEPT ![p] = [files |-> todo[p].files, now |-> x]]
<1>1. todo[p] \in Listing /\ todo \in [Program -> Listing]
  BY DEF LoopTypeOK
<1>2. [todo[p] EXCEPT !.files = x] = [files |-> x, now |-> todo[p].now]
  BY <1>1 DEF Listing
<1>3. [todo[p] EXCEPT !.now = x] = [files |-> todo[p].files, now |-> x]
  BY <1>1 DEF Listing
<1>4. QED
  BY <1>1, <1>2, <1>3 DEF Listing

LEMMA MishapEffect == ASSUME LoopTypeOK, Mishap \/ UNCHANGED mishaps PROVE mishaps' \in Nat
  BY DEF LoopTypeOK, Mishap

(* When the file a watch is at is let go, it has been taken or refused. *)
Dealt(f) ==
    (IsUp("watch")' /\ There(f) /\ seen[f].emitted /\ Still(f) /\ todo["watch"].now = {f} /\ todo'["watch"].now # {f})
        => Excused(f)' \/ Snapshot(f) \in snapshots'

(* A step that writes no file and observes none keeps what holds of all. *)
LEMMA OthersStayTaken ==
  ASSUME LoopInv, UNCHANGED <<log, writes>>,
         seen' \in [Log -> Observation],
         \A f \in Log : seen'[f].print = seen[f].print /\ seen'[f].emitted = seen[f].emitted,
         at' \in [Program -> Posture], IsUp("watch")' => IsUp("watch"),
         todo' \in [Program -> Listing], \A f \in Log : Dealt(f),
         missed' \subseteq Log \X Nat, missed \subseteq missed',
         snapshots' \subseteq Log \X Nat, snapshots \subseteq snapshots', sent' \subseteq Log \X Nat,
         mishaps' \in Nat
  PROVE  LoopInv'
<1>1. LoopTypeOK'
  BY DEF LoopInv, LoopTypeOK
<1>2. ASSUME NEW f \in Log PROVE PrintsAreOfWrites(f)'
  BY DEF LoopInv, PrintsAreOfWrites, There
<1>3. ASSUME NEW f \in Log, IsUp("watch")', There(f)', seen'[f].emitted, Still(f)', todo'["watch"].now # {f}
      PROVE  Excused(f)' \/ (Snapshot(f) \in snapshots)'
  <2>1. There(f) /\ seen[f].emitted /\ Still(f) /\ IsUp("watch") /\ Snapshot(f)' = Snapshot(f)
    BY <1>3 DEF There, Still, Snapshot
  <2>2. CASE todo["watch"].now = {f}
    BY <1>3, <2>1, <2>2 DEF Dealt
  <2>3. CASE todo["watch"].now # {f}
    <3>1. Excused(f) \/ Snapshot(f) \in snapshots
      BY <2>1, <2>3 DEF LoopInv, EmittedWasTaken
    <3>2. Excused(f) => Excused(f)'
      BY DEF Excused, Hidden
    <3>3. QED
      BY <2>1, <3>1, <3>2
  <2>4. QED
    BY <2>2, <2>3
<1>4. \A f \in Log : EmittedWasTaken(f)'
  BY <1>3 DEF EmittedWasTaken
<1>5. QED
  BY <1>1, <1>2, <1>4 DEF LoopInv

LEMMA GoingIsNoStart ==
  ASSUME LoopTypeOK, NEW p \in Program, IsUp(p), NEW place, Elsewhere(p, place)
  PROVE  IsUp("watch")' => IsUp("watch")
<1>1. CASE p = "watch"
  BY <1>1
<1>2. CASE p # "watch"
  BY <1>2 DEF IsUp, Elsewhere, Program
<1>3. QED
  BY <1>1, <1>2

LEMMA FilesEffect ==
  ASSUME LoopTypeOK, NEW p \in Program, NEW files \in SUBSET Log, todo' = [todo EXCEPT ![p].files = files]
  PROVE  todo' \in [Program -> Listing] /\ todo'["watch"].now = todo["watch"].now
<1>1. HasTodo(p, files, todo[p].now)
  BY TodoRow, ListingEffect
<1>2. QED
  BY <1>1 DEF HasTodo

(* A step of one program that holds on to the file it is at, if it is at one. *)
LEMMA StepStaysTaken ==
  ASSUME LoopInv, NEW p \in Program, IsUp(p), UNCHANGED <<log, writes>>,
         at' = at \/ \E place \in Places : Elsewhere(p, place),
         UNCHANGED seen \/ Sleeps,
         todo' \in [Program -> Listing], \A f \in Log : Dealt(f),
         missed' \subseteq Log \X Nat, missed \subseteq missed',
         snapshots' \subseteq Log \X Nat, snapshots \subseteq snapshots', sent' \subseteq Log \X Nat,
         mishaps' \in Nat
  PROVE  LoopInv'
<1>t. LoopTypeOK
  BY DEF LoopInv
<1>1. at' \in [Program -> Posture] /\ (IsUp("watch")' => IsUp("watch"))
  BY <1>t, GoingIsNoStart DEF Elsewhere, LoopTypeOK, IsUp
<1>2. seen' \in [Log -> Observation] /\ \A f \in Log : seen'[f].print = seen[f].print /\ seen'[f].emitted = seen[f].emitted
  <2>1. CASE UNCHANGED seen
    BY <1>t, <2>1 DEF LoopTypeOK
  <2>2. CASE Sleeps
    <3>1. PICK d \in 1..Debounce : seen' = [f \in Log |-> Aged(f, d)]
      BY <2>2 DEF Sleeps
    <3>2. ASSUME NEW f \in Log
          PROVE  Aged(f, d) \in Observation /\ Aged(f, d).print = seen[f].print /\ Aged(f, d).emitted = seen[f].emitted
      <4>1. seen[f] \in Observation /\ seen[f].waited \in Nat
        BY <1>t DEF LoopTypeOK, Observation
      <4>2. (IF seen[f].waited + d > Debounce THEN Debounce ELSE seen[f].waited + d) \in Nat
        BY <4>1, LoopAssumption
      <4>3. QED
        BY <4>1, <4>2 DEF Aged, Observation
    <3>3. QED
      BY <3>1, <3>2
  <2>3. QED
    BY <2>1, <2>2
<1>3. QED
  BY <1>1, <1>2, OthersStayTaken

(* Writes and removals: what a stat showed before is no longer it, or hides the new version. *)
LEMMA WriteInv == ASSUME LoopInv, NEW f \in Log, Write(f) \/ Vanish(f) PROVE LoopInv'
<1>t. /\ LoopTypeOK /\ log \in [Log -> Stat] /\ seen[f] \in Observation /\ log[f] \in Stat /\ writes \in Nat
      /\ writes' = writes + 1 /\ UNCHANGED <<seen, at, todo, snapshots, sent, missed, mishaps>>
  BY DEF LoopInv, LoopTypeOK, Write, Vanish
<1>1. \E version, print \in Nat, large \in BOOLEAN :
         /\ log' = [log EXCEPT ![f] = [version |-> version, large |-> large, print |-> print]]
         /\ \/ version = writes + 1 /\ print = writes + 1
            \/ version = writes + 1 /\ print = log[f].print /\ There(f)
            \/ version = 0 /\ print = 0
  <2>1. CASE Write(f)
    <3>1. PICK kind \in {"plain", "large"} \cup (IF There(f) THEN {"unseen"} ELSE {}) :
             log' = [log EXCEPT ![f] = [version |-> writes + 1, large |-> kind = "large",
                                        print |-> IF kind = "unseen" THEN log[f].print ELSE writes + 1]]
      BY <1>t, <2>1 DEF Write
    <3>2. log[f].print \in Nat /\ writes + 1 \in Nat /\ (kind = "large") \in BOOLEAN
      BY <1>t DEF Stat
    <3>3. CASE kind = "unseen"
      <4>1. There(f)
        BY <3>1, <3>3
      <4>2. log' = [log EXCEPT ![f] = [version |-> writes + 1, large |-> kind = "large", print |-> log[f].print]]
        BY <3>1, <3>3
      <4>3. QED
        BY <3>2, <4>1, <4>2
    <3>4. CASE kind # "unseen"
      <4>1. log' = [log EXCEPT ![f] = [version |-> writes + 1, large |-> kind = "large", print |-> writes + 1]]
        BY <3>1, <3>4
      <4>2. QED
        BY <3>2, <4>1
    <3>5. QED
      BY <3>3, <3>4
  <2>2. CASE Vanish(f)
    <3>1. log' = [log EXCEPT ![f] = [version |-> 0, large |-> FALSE, print |-> 0]]
      BY <2>2 DEF Vanish
    <3>2. QED
      BY <3>1
  <2>3. QED
    BY <2>1, <2>2
<1>2. PICK version, print \in Nat, large \in BOOLEAN :
         /\ log' = [log EXCEPT ![f] = [version |-> version, large |-> large, print |-> print]]
         /\ \/ version = writes + 1 /\ print = writes + 1
            \/ version = writes + 1 /\ print = log[f].print /\ There(f)
            \/ version = 0 /\ print = 0
  BY <1>1
<1>3. [version |-> version, large |-> large, print |-> print] \in Stat
  BY DEF Stat
<1>4. /\ log' \in [Log -> Stat] /\ log'[f].version = version /\ log'[f].print = print
      /\ \A g \in Log \ {f} : log'[g] = log[g]
  BY <1>t, <1>2, <1>3
<1>5. LoopTypeOK'
  BY <1>t, <1>4 DEF LoopTypeOK
<1>6. /\ log[f].print <= writes /\ log[f].version <= writes /\ seen[f].print <= writes
      /\ There(f) => log[f].print # 0
      /\ seen[f].emitted => seen[f].print # 0
      /\ seen[f].print \in Nat /\ log[f].print \in Nat
  BY <1>t DEF LoopInv, PrintsAreOfWrites, Stat, Observation
<1>7. ASSUME NEW g \in Log PROVE PrintsAreOfWrites(g)'
  <2>1. CASE g = f
    <3>1. version <= writes + 1 /\ print <= writes + 1 /\ seen[f].print <= writes + 1 /\ (version > 0 => print # 0)
      BY <1>t, <1>2, <1>6
    <3>2. QED
      BY <1>t, <1>4, <1>6, <2>1, <3>1 DEF PrintsAreOfWrites, There
  <2>2. CASE g # f
    <3>1. log'[g] = log[g] /\ seen'[g] = seen[g]
      BY <1>t, <1>4, <2>2
    <3>2. /\ log[g].version <= writes /\ log[g].print <= writes /\ seen[g].print <= writes
          /\ log[g].version \in Nat /\ log[g].print \in Nat /\ seen[g].print \in Nat
      BY <1>t DEF LoopInv, LoopTypeOK, PrintsAreOfWrites, Stat, Observation
    <3>3. log[g].version <= writes + 1 /\ log[g].print <= writes + 1 /\ seen[g].print <= writes + 1
      BY <1>t, <3>2
    <3>4. QED
      BY <1>t, <3>1, <3>3 DEF LoopInv, PrintsAreOfWrites, There
  <2>3. QED
    BY <2>1, <2>2
<1>8. ASSUME NEW g \in Log PROVE EmittedWasTaken(g)'
  <2>1. CASE g = f
    <3>1. CASE print = writes + 1
      <4>1. seen[f].emitted => ~(seen[f].print \in {0, print})
        BY <1>t, <1>6, <3>1
      <4>2. QED
        BY <1>t, <1>4, <2>1, <4>1 DEF EmittedWasTaken, Still
    <3>2. CASE version = writes + 1 /\ print = log[f].print
      <4>1. print # version
        BY <1>t, <1>6, <3>2
      <4>2. QED
        BY <1>4, <2>1, <4>1 DEF EmittedWasTaken, Excused, Hidden
    <3>3. CASE version = 0
      BY <1>4, <2>1, <3>3 DEF EmittedWasTaken, There
    <3>4. QED
      BY <1>2, <3>1, <3>2, <3>3
  <2>2. CASE g # f
    <3>1. log'[g] = log[g]
      BY <1>4, <2>2
    <3>2. QED
      BY <1>t, <3>1 DEF LoopInv, EmittedWasTaken, IsUp, There, Still, Excused, Hidden, Snapshot
  <2>3. QED
    BY <2>1, <2>2
<1>9. QED
  BY <1>5, <1>7, <1>8 DEF LoopInv

LEMMA LaunchInv == ASSUME LoopInv, NEW p \in Program, Launch(p) PROVE LoopInv'
<1>t. LoopTypeOK /\ UNCHANGED <<log, todo, snapshots, sent, writes, mishaps>>
  BY DEF LoopInv, Launch
<1>1. Elsewhere(p, "list")
  BY <1>t, GoesEffect DEF Launch, Places
<1>2. CASE p = "watch"
  <2>1. seen' = Unseen /\ missed' = {}
    BY <1>2 DEF Launch
  <2>2. \A f \in Log : seen'[f].print = 0 /\ ~seen'[f].emitted
    BY <2>1 DEF Unseen
  <2>3. LoopTypeOK'
    BY <1>t, <1>1, <2>1 DEF LoopTypeOK, Elsewhere, Unseen, Observation
  <2>4. \A f \in Log : PrintsAreOfWrites(f)'
    BY <1>t, <2>2 DEF LoopInv, LoopTypeOK, PrintsAreOfWrites, There
  <2>5. \A f \in Log : EmittedWasTaken(f)'
    BY <2>2 DEF EmittedWasTaken
  <2>6. QED
    BY <2>3, <2>4, <2>5 DEF LoopInv
<1>3. CASE p = "window"
  <2>1. UNCHANGED <<seen, missed>> /\ at'["watch"] = at["watch"]
    BY <1>1, <1>3 DEF Launch, Elsewhere, Program
  <2>2. QED
    BY <1>t, <1>1, <2>1, OthersStayTaken DEF LoopTypeOK, Elsewhere, IsUp, Dealt
<1>4. QED
  BY <1>2, <1>3 DEF Program

LEMMA KilledInv == ASSUME LoopInv, NEW p \in Program, Killed(p) PROVE LoopInv'
<1>1. Elsewhere(p, "off")
  BY GoesEffect DEF Killed, Places, LoopInv
<1>2. HasTodo(p, {}, {})
  BY ListingEffect DEF Killed, LoopInv
<1>3. IsUp("watch")' => p # "watch" /\ IsUp("watch") /\ todo'["watch"] = todo["watch"]
  BY <1>1, <1>2 DEF IsUp, Elsewhere, HasTodo, Program
<1>4. LoopTypeOK /\ UNCHANGED <<log, seen, snapshots, sent, missed, writes>> /\ mishaps' \in Nat
  BY DEF LoopInv, LoopTypeOK, Killed, Mishap
<1>5. QED
  BY <1>1, <1>2, <1>3, <1>4, OthersStayTaken DEF LoopTypeOK, Elsewhere, HasTodo, Dealt

LEMMA ListingsInv ==
  ASSUME LoopInv, NEW p \in Program, List(p) \/ ListFails(p) \/ PassDone(p)
  PROVE  LoopInv'
<1>t. LoopTypeOK /\ IsUp(p) /\ UNCHANGED <<log, seen, snapshots, sent, missed, writes>>
  BY DEF LoopInv, List, ListFails, PassDone, IsUp
<1>1. \E place \in Places : Elsewhere(p, place)
  <2>1. CASE List(p)
    BY <1>t, <2>1, PlaceEffect DEF List, Places
  <2>2. CASE ListFails(p)
    BY <1>t, <2>2, BrokenEffect DEF ListFails
  <2>3. CASE PassDone(p)
    BY <1>t, <2>3, PlaceEffect DEF PassDone, Places
  <2>4. QED
    BY <2>1, <2>2, <2>3
<1>2. todo' \in [Program -> Listing] /\ todo'["watch"].now = todo["watch"].now /\ mishaps' \in Nat
  <2>1. CASE List(p)
    <3>1. {f \in Log : There(f)} \in SUBSET Log
      OBVIOUS
    <3>2. QED
      BY <1>t, <2>1, <3>1, FilesEffect DEF List, LoopTypeOK
  <2>2. CASE ListFails(p) \/ PassDone(p)
    <3>1. UNCHANGED todo /\ (Mishap \/ UNCHANGED mishaps)
      BY <2>2 DEF ListFails, PassDone
    <3>2. QED
      BY <1>t, <3>1, MishapEffect DEF LoopTypeOK
  <2>3. QED
    BY <2>1, <2>2
<1>3. QED
  BY <1>t, <1>1, <1>2, StepStaysTaken DEF LoopTypeOK, Dealt

LEMMA SyncsInv ==
  ASSUME LoopInv, NEW p \in Program, Sync(p) \/ SyncFails(p) \/ Rest(p) \/ (p = "watch" /\ Retreat)
  PROVE  LoopInv'
<1>t. LoopTypeOK /\ IsUp(p) /\ UNCHANGED <<log, todo, snapshots, missed, writes>>
  BY DEF LoopInv, Sync, SyncFails, Rest, Retreat, IsUp
<1>1. \E place \in Places : Elsewhere(p, place)
  <2>1. CASE Sync(p) \/ SyncFails(p)
    BY <1>t, <2>1, PlaceEffect DEF Sync, SyncFails, Places
  <2>2. CASE Rest(p)
    <3>1. GoesTo(p, "list", p = "watch") /\ (p = "watch") \in BOOLEAN
      BY <2>2 DEF Rest
    <3>2. QED
      BY <1>t, <3>1, GoesEffect DEF Places
  <2>3. CASE p = "watch" /\ Retreat
    BY <1>t, <2>3, GoesEffect DEF Retreat, Places
  <2>4. QED
    BY <2>1, <2>2, <2>3
<1>2. (UNCHANGED seen \/ Sleeps) /\ sent' \subseteq Log \X Nat /\ mishaps' \in Nat
  <2>1. UNCHANGED seen \/ Sleeps
    BY DEF Sync, SyncFails, Rest, Retreat
  <2>2. sent' \in {sent, snapshots} /\ (Mishap \/ UNCHANGED mishaps)
    BY DEF Sync, SyncFails, Rest, Retreat
  <2>3. QED
    BY <1>t, <2>1, <2>2, MishapEffect DEF LoopTypeOK
<1>3. QED
  BY <1>t, <1>1, <1>2, StepStaysTaken DEF LoopTypeOK, Dealt

LEMMA TakeNextInv == ASSUME LoopInv, NEW p \in Program, NEW f \in Log, TakeNext(p, f) PROVE LoopInv'
<1>t. LoopTypeOK /\ IsUp(p) /\ UNCHANGED <<log, seen, at, snapshots, sent, missed, writes, mishaps>> /\ todo[p].now = {}
  BY DEF LoopInv, TakeNext, StandsAt, IsUp
<1>1. HasTodo(p, todo[p].files \ {f}, {f})
  BY <1>t, ListingEffect, TodoRow DEF TakeNext, TakeUp
<1>2. \A g \in Log : Dealt(g)
  BY <1>t, <1>1 DEF Dealt, HasTodo, Program
<1>3. QED
  BY <1>t, <1>1, <1>2, StepStaysTaken DEF LoopTypeOK, HasTodo

LEMMA ScanMissesInv == ASSUME LoopInv, NEW f \in Log, ScanMisses(f) PROVE LoopInv'
<1>t. LoopTypeOK /\ IsUp("watch") /\ UNCHANGED <<log, seen, snapshots, sent, missed, writes, mishaps>> /\ todo["watch"].now = {}
  BY DEF LoopInv, ScanMisses, StandsAt, IsUp
<1>1. HasTodo("watch", {}, {})
  BY <1>t, ListingEffect DEF ScanMisses, Drop, Program
<1>2. \E place \in Places : Elsewhere("watch", place)
  BY <1>t, BrokenEffect DEF ScanMisses, Program
<1>3. QED
  BY <1>t, <1>1, <1>2, StepStaysTaken DEF LoopTypeOK, HasTodo, Dealt, Program

(* What the watch counts as dealt with it has taken up in the same step. *)
LEMMA ScanInv == ASSUME LoopInv, NEW f \in Log, Scan(f) PROVE LoopInv'
<1>t. /\ LoopTypeOK /\ todo["watch"].now = {} /\ There(f)
      /\ UNCHANGED <<log, at, snapshots, sent, missed, writes, mishaps>>
      /\ log[f] \in Stat /\ seen[f] \in Observation /\ writes \in Nat /\ log[f].print \in Nat /\ IsUp("watch")
      /\ seen' = [seen EXCEPT ![f] = Observed(f)] /\ seen \in [Log -> Observation]
  BY DEF LoopInv, LoopTypeOK, Scan, StandsAt, Stat, IsUp
<1>1. /\ Observed(f) \in Observation /\ Observed(f).print = log[f].print
      /\ ~Still(f) => ~Observed(f).emitted
      /\ seen[f].emitted /\ Still(f) => Observed(f).emitted
  <2>1. CASE ~Still(f)
    <3>1. Observed(f) = [print |-> log[f].print, waited |-> 0, emitted |-> FALSE]
      BY <2>1 DEF Observed
    <3>2. QED
      BY <1>t, <2>1, <3>1 DEF Observation
  <2>2. CASE Still(f)
    <3> DEFINE dealt == seen[f].emitted \/ seen[f].waited = Debounce
    <3>1. Observed(f) = [seen[f] EXCEPT !.print = log[f].print, !.emitted = dealt]
      BY <1>t, <2>2 DEF Observed, Observation
    <3>2. dealt \in BOOLEAN /\ (seen[f].emitted => dealt)
      BY <1>t DEF Observation
    <3> HIDE DEF dealt
    <3>3. [seen[f] EXCEPT !.print = log[f].print, !.emitted = dealt] \in Observation
      BY <1>t, <3>2 DEF Observation
    <3>4. [seen[f] EXCEPT !.print = log[f].print, !.emitted = dealt].print = log[f].print
      BY <1>t DEF Observation
    <3>5. [seen[f] EXCEPT !.print = log[f].print, !.emitted = dealt].emitted = dealt
      BY <1>t DEF Observation
    <3>6. QED
      BY <2>2, <3>1, <3>2, <3>3, <3>4, <3>5
  <2>3. QED
    BY <2>1, <2>2
<1>2. /\ seen' \in [Log -> Observation] /\ seen'[f] = Observed(f)
      /\ \A g \in Log \ {f} : seen'[g] = seen[g]
  BY <1>t, <1>1
<1>3. /\ todo' \in [Program -> Listing]
      /\ seen'[f].emitted /\ ~seen[f].emitted => todo'["watch"].now = {f}
  <2>1. CASE seen'[f].emitted /\ ~seen[f].emitted
    <3>0. /\ "watch" \in Program /\ todo["watch"].files \ {f} \in SUBSET Log /\ {f} \in SUBSET Log
          /\ todo' = [todo EXCEPT !["watch"] = [files |-> todo["watch"].files \ {f}, now |-> {f}]]
      <4>1. "watch" \in Program
        BY DEF Program
      <4>2. todo["watch"].files \in SUBSET Log
        BY <1>t, <4>1, TodoRow
      <4>3. todo' = [todo EXCEPT !["watch"] = [files |-> @.files \ {f}, now |-> {f}]]
        BY <2>1 DEF Scan, TakeUp
      <4>4. QED
        BY <4>1, <4>2, <4>3
    <3>1. HasTodo("watch", todo["watch"].files \ {f}, {f})
      BY <1>t, <3>0, ListingEffect
    <3>2. QED
      BY <3>1 DEF HasTodo
  <2>2. CASE ~(seen'[f].emitted /\ ~seen[f].emitted)
    <3>1. todo' = [todo EXCEPT !["watch"].files = todo["watch"].files \ {f}]
      BY <1>t, <2>2 DEF Scan, PassOver, LoopTypeOK, Program
    <3>2. todo["watch"].files \ {f} \in SUBSET Log
      BY <1>t, TodoRow DEF Program
    <3>3. QED
      BY <1>t, <2>2, <3>1, <3>2, FilesEffect DEF Program
  <2>3. QED
    BY <2>1, <2>2
<1>4. LoopTypeOK'
  BY <1>t, <1>2, <1>3 DEF LoopTypeOK
<1>5. ASSUME NEW g \in Log PROVE PrintsAreOfWrites(g)'
  <2>1. CASE g = f
    <3>1. log[f].print # 0 /\ log[f].print <= writes
      BY <1>t DEF LoopInv, PrintsAreOfWrites
    <3>2. QED
      BY <1>t, <1>1, <1>2, <2>1, <3>1 DEF LoopInv, PrintsAreOfWrites, There
  <2>2. CASE g # f
    BY <1>t, <1>2, <2>2 DEF LoopInv, PrintsAreOfWrites, There
  <2>3. QED
    BY <2>1, <2>2
<1>6. ASSUME NEW g \in Log PROVE EmittedWasTaken(g)'
  <2>1. CASE g = f
    <3>1. CASE seen'[f].emitted /\ ~seen[f].emitted
      BY <1>3, <2>1, <3>1 DEF EmittedWasTaken
    <3>2. CASE ~seen'[f].emitted
      BY <2>1, <3>2 DEF EmittedWasTaken
    <3>3. CASE seen[f].emitted /\ seen'[f].emitted
      <4>1. Still(f)
        BY <1>1, <1>2, <3>3
      <4>2. Excused(f) \/ Snapshot(f) \in snapshots
        BY <1>t, <3>3, <4>1 DEF LoopInv, EmittedWasTaken
      <4>3. QED
        BY <1>t, <2>1, <4>2 DEF EmittedWasTaken, Excused, Hidden, Snapshot
    <3>4. QED
      BY <3>1, <3>2, <3>3
  <2>2. CASE g # f
    <3>1. seen'[g] = seen[g] /\ todo["watch"].now # {g}
      BY <1>t, <1>2, <2>2
    <3>2. QED
      BY <1>t, <3>1 DEF LoopInv, EmittedWasTaken, There, Still, Excused, Hidden, Snapshot, IsUp
  <2>3. QED
    BY <2>1, <2>2
<1>7. QED
  BY <1>4, <1>5, <1>6 DEF LoopInv

LEMMA EnqueueInv == ASSUME LoopInv, NEW p \in Program, NEW f \in Log, Enqueue(p, f) PROVE LoopInv'
<1>t. LoopTypeOK /\ IsUp(p) /\ UNCHANGED <<log, seen, at, sent, missed, writes, mishaps>> /\ todo[p].now = {f} /\ log[f] \in Stat
  BY DEF LoopInv, LoopTypeOK, Enqueue, IsUp
<1>1. HasTodo(p, todo[p].files, {})
  BY <1>t, ListingEffect, TodoRow DEF Enqueue
<1>2. /\ snapshots' \subseteq Log \X Nat /\ snapshots \subseteq snapshots'
      /\ log[f].large \/ Snapshot(f) \in snapshots'
  BY <1>t DEF Enqueue, Snapshot, LoopTypeOK, Stat
<1>3. ASSUME NEW g \in Log PROVE Dealt(g)
  <2>1. CASE p = "watch"
    BY <1>t, <1>2, <2>1 DEF Dealt, Excused
  <2>2. CASE p # "watch"
    BY <1>1, <2>2 DEF Dealt, HasTodo, Program
  <2>3. QED
    BY <2>1, <2>2
<1>4. QED
  BY <1>t, <1>1, <1>2, <1>3, StepStaysTaken DEF LoopTypeOK, HasTodo

(* A scan that fails notes the print it had counted; a whole pass that fails ends the watch. *)
LEMMA EnqueueFailsInv == ASSUME LoopInv, NEW p \in Program, NEW f \in Log, EnqueueFails(p, f) PROVE LoopInv'
<1>t. /\ LoopTypeOK /\ IsUp(p) /\ UNCHANGED <<log, seen, snapshots, sent, writes>> /\ todo[p].now = {f}
      /\ seen[f] \in Observation /\ seen[f].print \in Nat /\ missed' = Missed(p, f)
  BY DEF LoopInv, LoopTypeOK, EnqueueFails, IsUp, Observation
<1>1. HasTodo(p, {}, {})
  BY <1>t, ListingEffect DEF EnqueueFails, Drop
<1>2. PICK retryable \in BOOLEAN : Broken(p, retryable)
  BY DEF EnqueueFails
<1>3. /\ \E place \in Places : Elsewhere(p, place)
      /\ p = "watch" /\ ~at["watch"].scan => at'["watch"].place = "ended"
  BY <1>t, <1>2, BrokenEffect
<1>4. mishaps' \in Nat
  <2>1. Mishap \/ UNCHANGED mishaps
    BY DEF EnqueueFails
  <2>2. QED
    BY <1>t, <2>1, MishapEffect
<1>5. /\ missed' \subseteq Log \X Nat /\ missed \subseteq missed'
      /\ at[p].scan => <<f, seen[f].print>> \in missed'
  BY <1>t DEF Missed, LoopTypeOK
<1>6. ASSUME NEW g \in Log PROVE Dealt(g)
  <2>1. CASE p = "watch"
    <3>1. CASE at["watch"].scan
      <4>1. seen[f].emitted => seen[f].print # 0
        BY DEF LoopInv, PrintsAreOfWrites
      <4>2. seen[f].emitted /\ Still(f) => <<f, log[f].print>> \in missed'
        BY <1>5, <2>1, <3>1, <4>1 DEF Still
      <4>3. QED
        BY <1>t, <2>1, <4>2 DEF Dealt, Excused
    <3>2. CASE ~at["watch"].scan
      BY <1>3, <2>1, <3>2 DEF Dealt, IsUp
    <3>3. QED
      BY <3>1, <3>2
  <2>2. CASE p # "watch"
    BY <1>1, <2>2 DEF Dealt, HasTodo, Program
  <2>3. QED
    BY <2>1, <2>2
<1>7. QED
  BY <1>t, <1>1, <1>3, <1>4, <1>5, <1>6, StepStaysTaken DEF LoopTypeOK, HasTodo

LEMMA LoopNextInv == LoopInv /\ [LoopNext]_loopVars => LoopInv'
<1> SUFFICES ASSUME LoopInv, [LoopNext]_loopVars PROVE LoopInv'
  OBVIOUS
<1>1. ASSUME NEW f \in Log, Write(f) \/ Vanish(f) PROVE LoopInv'
  BY <1>1, WriteInv
<1>2. ASSUME NEW p \in Program, Launch(p) \/ Killed(p) PROVE LoopInv'
  BY <1>2, LaunchInv, KilledInv
<1>3. ASSUME NEW p \in Program, LoopStep(p) PROVE LoopInv'
  <2>1. CASE List(p) \/ ListFails(p) \/ PassDone(p)
    BY <2>1, ListingsInv
  <2>2. CASE Sync(p) \/ SyncFails(p) \/ Rest(p) \/ (p = "watch" /\ Retreat)
    BY <2>2, SyncsInv
  <2>3. ASSUME NEW f \in Log, TakeNext(p, f) \/ Enqueue(p, f) \/ EnqueueFails(p, f) PROVE LoopInv'
    BY <2>3, TakeNextInv, EnqueueInv, EnqueueFailsInv
  <2>4. ASSUME NEW f \in Log, Scan(f) \/ ScanMisses(f) PROVE LoopInv'
    BY <2>4, ScanInv, ScanMissesInv
  <2>5. QED
    BY <1>3, <2>1, <2>2, <2>3, <2>4 DEF LoopStep
<1>4. CASE UNCHANGED loopVars
  BY <1>4, OthersStayTaken DEF LoopInv, LoopTypeOK, IsUp, Dealt
<1>5. QED
  BY <1>1, <1>2, <1>3, <1>4 DEF LoopNext

(* Whatever the order of the writes, the programs' steps and their failures:   *)
(* a path the watch counts as dealt with (watcher.rs observe) is.              *)
THEOREM EmittedPathsAreTaken == LoopSpec => []EmittedIsTaken
<1>1. LoopInit => LoopInv
  BY LoopInitInv
<1>2. LoopInv /\ [LoopNext]_loopVars => LoopInv'
  BY LoopNextInv
<1>3. LoopInv => EmittedIsTaken
  BY DEF LoopInv, EmittedIsTaken
<1>4. QED
  BY <1>1, <1>2, <1>3, PTL DEF LoopSpec
==============================================================================
