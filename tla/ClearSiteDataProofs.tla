------------------------ MODULE ClearSiteDataProofs -------------------------
(* Theorems about ClearSiteData, for any set of requests.                   *)
EXTENDS ClearSiteData, TLAPS

USE ClearSiteDataAssumption

(* What the chain does when a callback of a held request is run: whichever  *)
(* it is, the request is told exactly when no callback is left.             *)
LEMMA CallbackCompleteTells ==
    ASSUME TypeOK, NEW r \in Requests, phase[r] = "vetting", chain[r].waiting > 0,
           blocks[r] = told[r] + 1,
           NEW result \in {"OK", "ERR_BLOCKED_BY_CLIENT"}, CallbackComplete(r, result)
    PROVE  /\ chain' \in [Requests -> [waiting : 0..2, result : {"OK", "ERR_BLOCKED_BY_CLIENT"}]]
           /\ phase' \in [Requests -> {"sent", "vetting", "answered", "failed", "gone"}]
           /\ told' \in [Requests -> 0..MaxBlocks]
           /\ chain'[r].waiting = chain[r].waiting - 1
           /\ chain'[r].result = SetResult(chain[r].result, result)
           /\ IF chain'[r].waiting = 0
              THEN /\ told'[r] = blocks[r]
                   /\ phase'[r] \in IF chain'[r].result = "OK" THEN {"sent", "answered"} ELSE {"failed"}
              ELSE phase'[r] = "vetting" /\ told'[r] = told[r]
           /\ \A q \in Requests \ {r} :
                 chain'[q] = chain[q] /\ phase'[q] = phase[q] /\ told'[q] = told[q]
<1> DEFINE c == [waiting |-> chain[r].waiting - 1, result |-> SetResult(chain[r].result, result)]
<1>1. /\ chain \in [Requests -> [waiting : 0..2, result : {"OK", "ERR_BLOCKED_BY_CLIENT"}]]
      /\ phase \in [Requests -> {"sent", "vetting", "answered", "failed", "gone"}]
      /\ told \in [Requests -> 0..MaxBlocks]
      /\ blocks \in [Requests -> 0..MaxBlocks]
  BY DEF TypeOK, Results
<1>2. c \in [waiting : 0..2, result : {"OK", "ERR_BLOCKED_BY_CLIENT"}]
  BY <1>1 DEF SetResult
<1>3. /\ chain' = [chain EXCEPT ![r] = c]
      /\ IF c.waiting = 0 THEN Proceed(r, c.result) ELSE UNCHANGED <<phase, told>>
  BY DEF CallbackComplete
<1> HIDE DEF c
<1>4. chain'[r] = c /\ \A q \in Requests \ {r} : chain'[q] = chain[q]
  BY <1>1, <1>3
<1>5. c.waiting = chain[r].waiting - 1 /\ c.result = SetResult(chain[r].result, result)
  BY DEF c
<1>6. CASE c.waiting = 0
  <2>1. told' = [told EXCEPT ![r] = @ + 1]
    BY <1>3, <1>6 DEF Proceed
  <2>2. \/ c.result = "OK" /\ \E next \in {"sent", "answered"} : phase' = [phase EXCEPT ![r] = next]
        \/ c.result # "OK" /\ phase' = [phase EXCEPT ![r] = "failed"]
    BY <1>3, <1>6 DEF Proceed
  <2>3. /\ told' \in [Requests -> 0..MaxBlocks] /\ told'[r] = blocks[r]
        /\ \A q \in Requests \ {r} : told'[q] = told[q]
    <3>1. told[r] + 1 = blocks[r] /\ blocks[r] \in 0..MaxBlocks
      BY <1>1
    <3> QED BY <1>1, <2>1, <3>1
  <2>4. /\ phase' \in [Requests -> {"sent", "vetting", "answered", "failed", "gone"}]
        /\ phase'[r] \in IF c.result = "OK" THEN {"sent", "answered"} ELSE {"failed"}
        /\ \A q \in Requests \ {r} : phase'[q] = phase[q]
    <3>1. PICK next \in IF c.result = "OK" THEN {"sent", "answered"} ELSE {"failed"} :
              phase' = [phase EXCEPT ![r] = next]
      BY <2>2
    <3> QED BY <1>1, <3>1
  <2>5. chain' \in [Requests -> [waiting : 0..2, result : {"OK", "ERR_BLOCKED_BY_CLIENT"}]]
    BY <1>1, <1>2, <1>3
  <2> QED
    BY <1>4, <1>5, <1>6, <2>3, <2>4, <2>5
<1>7. CASE c.waiting # 0
  BY <1>1, <1>2, <1>3, <1>4, <1>5, <1>7
<1> QED
  BY <1>6, <1>7

(* Nothing has been asked or answered yet.                                  *)
LEMMA InitInv == Init => ChainInv
BY DEF Init, ChainInv, TypeOK, ClearedBeforeProceeding, VetoStands, ChainWaitsForHolders,
       AnswersCounted, VetoRecorded, Results

(* Header blocks: the answers of both parties are added up, and the request *)
(* is held if one is still to come.                                         *)
LEMMA OnHeadersReceivedKeepsInv ==
    ASSUME ChainInv, NEW r \in Requests, NEW verdict \in Results, NEW header \in BOOLEAN,
           OnHeadersReceived(r, verdict, header)
    PROVE  ChainInv'
<1> DEFINE none == [waiting |-> 0, result |-> "OK"]
           c == AddResult(AddResult(none, verdict), HandleClearSiteDataHeader(r, header))
           verdicts == IF verdict = "ERR_IO_PENDING" THEN 1 ELSE 0
           asks == IF header /\ r \in Observed THEN 1 ELSE 0
<1>1. /\ phase[r] = "sent" /\ blocks[r] < MaxBlocks /\ blocks[r] = told[r]
      /\ r \notin client /\ r \notin vetoed
  BY DEF ChainInv, TypeOK, AnswersCounted, VetoStands, OnHeadersReceived
<1>2. /\ c \in [waiting : 0..2, result : {"OK", "ERR_BLOCKED_BY_CLIENT"}]
      /\ c.waiting = verdicts + asks
      /\ c.result = IF verdict = "ERR_BLOCKED_BY_CLIENT" THEN verdict ELSE "OK"
  BY DEF AddResult, SetResult, HandleClearSiteDataHeader, Results
<1>3. /\ blocks' = [blocks EXCEPT ![r] = @ + 1]
      /\ client' = IF verdict = "ERR_IO_PENDING" THEN client \cup {r} ELSE client
      /\ clearing' = [clearing EXCEPT ![r] = IF header /\ r \in Observed THEN "asked" ELSE "none"]
      /\ vetoed' = IF verdict = "ERR_BLOCKED_BY_CLIENT" THEN vetoed \cup {r} ELSE vetoed
      /\ chain' = [chain EXCEPT ![r] = c]
      /\ IF c.waiting = 0 THEN Proceed(r, c.result)
         ELSE phase' = [phase EXCEPT ![r] = "vetting"] /\ UNCHANGED told
      /\ r \notin Vetted => verdict = "OK"
      /\ UNCHANGED lost
  BY DEF OnHeadersReceived
<1> HIDE DEF c
<1>4. TypeOK
  BY DEF ChainInv
<1>5. CASE c.waiting = 0
  <2>1. told' = [told EXCEPT ![r] = @ + 1]
    BY <1>1, <1>3, <1>5 DEF Proceed
  <2>2. \/ c.result = "OK" /\ \E next \in {"sent", "answered"} : phase' = [phase EXCEPT ![r] = next]
        \/ c.result # "OK" /\ phase' = [phase EXCEPT ![r] = "failed"]
    BY <1>1, <1>3, <1>5 DEF Proceed
  <2>3. verdict # "ERR_IO_PENDING" /\ ~(header /\ r \in Observed)
    BY <1>2, <1>5
  <2>4. TypeOK'
    BY <1>1, <1>2, <1>3, <1>4, <2>1, <2>2, <2>3 DEF TypeOK, Results
  <2>5. ClearedBeforeProceeding' /\ VetoStands'
    BY <1>1, <1>2, <1>3, <1>4, <2>1, <2>2, <2>3
    DEF ChainInv, TypeOK, ClearedBeforeProceeding, VetoStands
  <2>6. ChainWaitsForHolders' /\ AnswersCounted' /\ VetoRecorded'
    BY <1>1, <1>2, <1>3, <1>4, <1>5, <2>1, <2>2, <2>3
    DEF ChainInv, TypeOK, ChainWaitsForHolders, AnswersCounted, VetoRecorded
  <2> QED
    BY <2>4, <2>5, <2>6 DEF ChainInv
<1>6. CASE c.waiting # 0
  <2>1. phase' = [phase EXCEPT ![r] = "vetting"] /\ told' = told
    BY <1>3, <1>6
  <2>2. TypeOK'
    BY <1>1, <1>2, <1>3, <1>4, <2>1 DEF TypeOK, Results
  <2>3. ClearedBeforeProceeding' /\ VetoStands'
    BY <1>1, <1>3, <1>4, <2>1 DEF ChainInv, TypeOK, ClearedBeforeProceeding, VetoStands
  <2>4. ChainWaitsForHolders'
    BY <1>1, <1>2, <1>3, <1>4, <2>1 DEF ChainInv, TypeOK, ChainWaitsForHolders
  <2>5. AnswersCounted'
    BY <1>1, <1>2, <1>3, <1>4, <1>6, <2>1 DEF ChainInv, TypeOK, AnswersCounted
  <2>6. VetoRecorded'
    BY <1>1, <1>2, <1>3, <1>4, <2>1 DEF ChainInv, TypeOK, VetoStands, VetoRecorded
  <2> QED
    BY <2>2, <2>3, <2>4, <2>5, <2>6 DEF ChainInv
<1> QED
  BY <1>5, <1>6

(* The header client's answer, which comes at most once and to a held request.*)
LEMMA HeaderClientAnswersKeepsInv ==
    ASSUME ChainInv, NEW r \in Requests, NEW verdict \in Results \ {"ERR_IO_PENDING"},
           HeaderClientAnswers(r, verdict)
    PROVE  ChainInv'
<1>1. TypeOK /\ r \in client /\ phase[r] = "vetting"
  BY DEF ChainInv, AnswersCounted, HeaderClientAnswers
<1>2. chain[r].waiting > 0 /\ blocks[r] = told[r] + 1
  BY <1>1 DEF ChainInv, TypeOK, AnswersCounted
<1>3. /\ client' = client \ {r} /\ UNCHANGED <<blocks, clearing, lost>>
      /\ vetoed' = IF verdict = "OK" THEN vetoed ELSE vetoed \cup {r}
      /\ CallbackComplete(r, verdict)
  BY DEF HeaderClientAnswers
<1>4. verdict \in {"OK", "ERR_BLOCKED_BY_CLIENT"}
  BY DEF Results
<1>5. /\ chain' \in [Requests -> [waiting : 0..2, result : {"OK", "ERR_BLOCKED_BY_CLIENT"}]]
      /\ phase' \in [Requests -> {"sent", "vetting", "answered", "failed", "gone"}]
      /\ told' \in [Requests -> 0..MaxBlocks]
      /\ chain'[r].waiting = chain[r].waiting - 1
      /\ chain'[r].result = SetResult(chain[r].result, verdict)
      /\ IF chain'[r].waiting = 0
         THEN /\ told'[r] = blocks[r]
              /\ phase'[r] \in IF chain'[r].result = "OK" THEN {"sent", "answered"} ELSE {"failed"}
         ELSE phase'[r] = "vetting" /\ told'[r] = told[r]
      /\ \A q \in Requests \ {r} :
            chain'[q] = chain[q] /\ phase'[q] = phase[q] /\ told'[q] = told[q]
  BY <1>1, <1>2, <1>3, <1>4, CallbackCompleteTells
<1>6. TypeOK'
  BY <1>1, <1>3, <1>5 DEF TypeOK, Results
<1>7. r \in vetoed' => chain'[r].result = "ERR_BLOCKED_BY_CLIENT"
  BY <1>1, <1>3, <1>4, <1>5 DEF ChainInv, TypeOK, VetoRecorded, SetResult, Results
<1>8. VetoStands' /\ VetoRecorded'
  BY <1>1, <1>3, <1>5, <1>7 DEF ChainInv, TypeOK, VetoStands, VetoRecorded
<1>9. chain[r].waiting = 1 + (IF clearing[r] \in {"asked", "cleared"} THEN 1 ELSE 0)
  BY <1>1 DEF ChainInv, ChainWaitsForHolders
<1>10. ChainWaitsForHolders' /\ AnswersCounted'
  BY <1>1, <1>2, <1>3, <1>5, <1>9 DEF ChainInv, TypeOK, ChainWaitsForHolders, AnswersCounted
<1>11. ClearedBeforeProceeding'
  BY <1>1, <1>3, <1>5, <1>9 DEF ChainInv, TypeOK, ClearedBeforeProceeding
<1> QED
  BY <1>6, <1>8, <1>10, <1>11 DEF ChainInv

(* The browser's reply.                                                     *)
LEMMA FinishedClearSiteDataKeepsInv ==
    ASSUME ChainInv, NEW r \in Requests, FinishedClearSiteData(r)
    PROVE  ChainInv'
<1>1. /\ TypeOK /\ clearing[r] = "cleared"
      /\ clearing' = [clearing EXCEPT ![r] = "finished"]
      /\ UNCHANGED <<blocks, client, lost, vetoed>>
  BY DEF ChainInv, FinishedClearSiteData
<1>2. CASE phase[r] = "gone"
  <2>1. UNCHANGED <<phase, chain, told>>
    BY <1>2 DEF FinishedClearSiteData
  <2> QED
    BY <1>1, <1>2, <2>1
    DEF ChainInv, TypeOK, ClearedBeforeProceeding, VetoStands, ChainWaitsForHolders,
        AnswersCounted, VetoRecorded
<1>3. CASE phase[r] # "gone"
  <2>1. CallbackComplete(r, "OK")
    BY <1>3 DEF FinishedClearSiteData
  <2>2. chain[r].waiting = (IF r \in client THEN 1 ELSE 0) + 1
    BY <1>1, <1>3 DEF ChainInv, ChainWaitsForHolders
  <2>3. chain[r].waiting > 0 /\ phase[r] = "vetting" /\ blocks[r] = told[r] + 1
    BY <1>1, <1>3, <2>2 DEF ChainInv, TypeOK, AnswersCounted
  <2>4. /\ chain' \in [Requests -> [waiting : 0..2, result : {"OK", "ERR_BLOCKED_BY_CLIENT"}]]
        /\ phase' \in [Requests -> {"sent", "vetting", "answered", "failed", "gone"}]
        /\ told' \in [Requests -> 0..MaxBlocks]
        /\ chain'[r].waiting = chain[r].waiting - 1
        /\ chain'[r].result = SetResult(chain[r].result, "OK")
        /\ IF chain'[r].waiting = 0
           THEN /\ told'[r] = blocks[r]
                /\ phase'[r] \in IF chain'[r].result = "OK" THEN {"sent", "answered"} ELSE {"failed"}
           ELSE phase'[r] = "vetting" /\ told'[r] = told[r]
        /\ \A q \in Requests \ {r} :
              chain'[q] = chain[q] /\ phase'[q] = phase[q] /\ told'[q] = told[q]
    BY <1>1, <2>1, <2>3, CallbackCompleteTells
  <2>5. TypeOK'
    BY <1>1, <2>4 DEF TypeOK, Results
  <2>6. r \in vetoed' => chain'[r].result = "ERR_BLOCKED_BY_CLIENT"
    BY <1>1, <2>3, <2>4 DEF ChainInv, VetoRecorded, SetResult
  <2>7. VetoStands' /\ VetoRecorded'
    BY <1>1, <2>4, <2>6 DEF ChainInv, TypeOK, VetoStands, VetoRecorded
  <2>8. /\ chain'[r].waiting = IF r \in client THEN 1 ELSE 0
        /\ phase'[r] = "vetting" <=> chain'[r].waiting > 0
        /\ blocks[r] = told'[r] + IF phase'[r] = "vetting" THEN 1 ELSE 0
    <3>1. blocks[r] \in Nat /\ told[r] \in Nat /\ chain'[r].waiting = IF r \in client THEN 1 ELSE 0
      BY <1>1, <2>2, <2>4 DEF TypeOK
    <3>2. CASE r \in client
      <4>1. chain'[r].waiting = 1
        BY <3>1, <3>2
      <4>2. chain'[r].waiting # 0
        BY <4>1
      <4>3. told'[r] = told[r] /\ phase'[r] = "vetting"
        BY <2>4, <4>2
      <4> QED
        BY <2>3, <3>1, <3>2, <4>1, <4>3
    <3>3. CASE r \notin client
      <4>1. told'[r] = blocks[r] /\ phase'[r] # "vetting"
        BY <2>4, <3>1, <3>3
      <4> QED
        BY <3>1, <3>3, <4>1
    <3> QED
      BY <3>2, <3>3
  <2>9. ChainWaitsForHolders'
    BY <1>1, <2>4, <2>8 DEF ChainInv, TypeOK, ChainWaitsForHolders
  <2>10. AnswersCounted'
    BY <1>1, <2>4, <2>8 DEF ChainInv, TypeOK, AnswersCounted
  <2>11. ClearedBeforeProceeding'
    BY <1>1, <2>4 DEF ChainInv, TypeOK, ClearedBeforeProceeding
  <2> QED
    BY <2>5, <2>7, <2>9, <2>10, <2>11 DEF ChainInv
<1> QED
  BY <1>2, <1>3

(* The invariant is inductive.                                              *)
LEMMA NextKeepsInv == ChainInv /\ [Next]_vars => ChainInv'
<1> SUFFICES ASSUME ChainInv, [Next]_vars PROVE ChainInv'
  OBVIOUS
<1> USE DEF ChainInv, TypeOK, ClearedBeforeProceeding, VetoStands, ChainWaitsForHolders,
            AnswersCounted, VetoRecorded
<1>1. ASSUME NEW r \in Requests, RequestDestroyed(r) PROVE ChainInv'
  BY <1>1 DEF RequestDestroyed
<1>2. ASSUME NEW r \in Requests, OnClearSiteData(r) PROVE ChainInv'
  BY <1>2 DEF OnClearSiteData
<1>3. ASSUME NEW r \in Requests, ObserverDisconnected(r) PROVE ChainInv'
  BY <1>3 DEF ObserverDisconnected
<1>4. CASE UNCHANGED vars
  BY <1>4 DEF vars
<1> QED
  BY <1>1, <1>2, <1>3, <1>4, OnHeadersReceivedKeepsInv, HeaderClientAnswersKeepsInv,
     FinishedClearSiteDataKeepsInv DEF Next

(* The bookkeeping of the chain is right for any number of requests,        *)
(* observers and header blocks (OnHeadersReceived and the two callbacks it  *)
(* gives away).                                                             *)
THEOREM ChainInvariant == Spec => []ChainInv
BY InitInv, NextKeepsInv, PTL DEF Spec

(* A response with Clear-Site-Data goes on only after the data is cleared   *)
(* (HandleClearSiteDataHeader's ERR_IO_PENDING).                            *)
THEOREM DataIsClearedFirst == Spec => []ClearedBeforeProceeding
<1>1. ChainInv => ClearedBeforeProceeding
  BY DEF ChainInv
<1> QED
  BY <1>1, ChainInvariant, PTL

(* The browser's OK never overrides the veto of the header client.          *)
THEOREM NoVetoIsOverridden == Spec => []VetoStands
<1>1. ChainInv => VetoStands
  BY DEF ChainInv
<1> QED
  BY <1>1, ChainInvariant, PTL

(* Each header block is answered once, to a request that is still there     *)
(* (CallbackComplete, and FinishedClearSiteData's test of the request).     *)
THEOREM AnswersMatchBlocks == Spec => OneAnswerPerBlock
<1> DEFINE Answered == \A r \in Requests :
               told'[r] # told[r] => /\ phase[r] \in {"sent", "vetting"}
                                     /\ told'[r] = blocks'[r]
<1>1. ASSUME ChainInv, NEW r \in Requests, NEW verdict \in Results, NEW header \in BOOLEAN,
             OnHeadersReceived(r, verdict, header)
      PROVE  Answered
  <2>1. /\ told \in [Requests -> 0..MaxBlocks] /\ blocks \in [Requests -> 0..MaxBlocks]
        /\ phase[r] = "sent" /\ blocks[r] = told[r]
    BY <1>1 DEF ChainInv, TypeOK, AnswersCounted, OnHeadersReceived
  <2>2. /\ blocks' = [blocks EXCEPT ![r] = @ + 1]
        /\ told' = [told EXCEPT ![r] = @ + 1] \/ told' = told
    BY <1>1 DEF OnHeadersReceived, Proceed
  <2> QED
    BY <2>1, <2>2
<1>2. ASSUME ChainInv, NEW r \in Requests, NEW result \in {"OK", "ERR_BLOCKED_BY_CLIENT"},
             CallbackComplete(r, result), phase[r] # "gone",
             r \in client \/ clearing[r] = "cleared", blocks' = blocks
      PROVE  Answered
  <2>1. /\ TypeOK /\ chain[r].waiting > 0
        /\ phase[r] = "vetting" /\ blocks[r] = told[r] + 1
    BY <1>2 DEF ChainInv, TypeOK, ChainWaitsForHolders, AnswersCounted
  <2>2. /\ told'[r] = blocks[r] \/ told'[r] = told[r]
        /\ \A q \in Requests \ {r} : told'[q] = told[q]
    BY <1>2, <2>1, CallbackCompleteTells
  <2> QED
    BY <1>2, <2>1, <2>2
<1>3. ASSUME ChainInv, NEW r \in Requests, NEW verdict \in Results \ {"ERR_IO_PENDING"},
             HeaderClientAnswers(r, verdict)
      PROVE  Answered
  <2>1. r \in client /\ phase[r] # "gone" /\ CallbackComplete(r, verdict) /\ blocks' = blocks
    BY <1>3 DEF ChainInv, AnswersCounted, HeaderClientAnswers
  <2>2. verdict \in {"OK", "ERR_BLOCKED_BY_CLIENT"}
    BY <1>3 DEF Results
  <2> QED
    BY <1>2, <1>3, <2>1, <2>2
<1>4. ASSUME ChainInv, NEW r \in Requests, FinishedClearSiteData(r)
      PROVE  Answered
  <2>1. clearing[r] = "cleared" /\ blocks' = blocks
    BY <1>4 DEF FinishedClearSiteData
  <2>2. CASE phase[r] = "gone"
    BY <1>4, <2>2 DEF FinishedClearSiteData
  <2>3. CASE phase[r] # "gone"
    BY <1>2, <1>4, <2>1, <2>3 DEF FinishedClearSiteData
  <2> QED
    BY <2>2, <2>3
<1>5. ASSUME NEW r \in Requests,
             RequestDestroyed(r) \/ OnClearSiteData(r) \/ ObserverDisconnected(r)
      PROVE  Answered
  BY <1>5 DEF RequestDestroyed, OnClearSiteData, ObserverDisconnected
<1> HIDE DEF Answered
<1>6. ChainInv /\ Next => Answered
  BY <1>1, <1>3, <1>4, <1>5 DEF Next
<1>7. ChainInv /\ [Next]_vars => [Answered]_vars
  BY <1>6
<1> USE DEF Answered
<1> QED
  BY <1>7, ChainInvariant, PTL DEF Spec, OneAnswerPerBlock
=============================================================================
