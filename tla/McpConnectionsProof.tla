-------------------------- MODULE McpConnectionsProof --------------------------
(***************************************************************************)
(* The pools of MCP clients and the credential their tokens come from, for *)
(* any number of agents, servers and writers and for every fault: whoever  *)
(* waits waits for something that goes on, an open client can be found,    *)
(* and, outside the races the history variables book, the refresh token in *)
(* the store is one the provider takes.                                    *)
(***************************************************************************)
EXTENDS McpConnections, FiniteSetTheorems, TLAPS

-----------------------------------------------------------------------------
(* The inductive invariants. *)

\* The clients that are open or being opened are within the bound.
Openers == {r \in Readers : Opens(r)}
ClientsInv == IsFiniteSet(Openers) /\ Opened <= MaxClients

\* A promise is under the key of the caller that made it, and that caller goes on.
PromiseInv ==
  /\ PromisesSettle
  /\ \A r \in Readers : caller[r].pc = "waiting" => caller[r].of # NoOne
  /\ \A p \in Processes, s \in Servers : opening[p][s] # NoOne =>
       home[opening[p][s]] = p /\ key[opening[p][s]] = s

\* While no pool was closed, the opening under way for a server is the one its promise is of,
\* and there is no client yet.
PoolInv ==
  /\ OneClientPerServer
  /\ shut = {} => \A r \in Readers : Opens(r) => Opening(r) = r /\ Pooled(r) = 0

\* What can be refreshed was issued.
Known(m, n) == m.refresh <= n /\ (m.refresh # 0 => m.gen # 0)
Issued(m)   == Known(m, issued)
\* A consent or push with a refresh token that it has not saved.
Saving(w) == writer[w].pc = "save" /\ writer[w].mat.refresh # 0
\* What is refreshed has an access token, and its successor belongs to the same connection.
Refreshable(p) ==
  /\ Issued(flight[p].base) /\ flight[p].base.gen # 0 /\ ~flight[p].base.pushed
  /\ flight[p].pc = "save" => /\ Issued(flight[p].new) /\ flight[p].new.gen # 0
                              /\ flight[p].new.origin = flight[p].base.origin
MaterialInv ==
  /\ Issued(store) /\ \A r \in Readers : Issued(reader[r].mat)
  /\ \A p \in Processes : flight[p].pc # "none" => Refreshable(p)
  /\ \A w \in Writers : Issued(writer[w].mat) /\ (writer[w].pc = "save" => writer[w].mat.gen # 0)

\* Unless a refresh was booked as stale there is one refresh at a time, it began with the
\* material of the store, and the only token that the provider may drop is the one it hands in,
\* which no push has brought.
FlightInv ==
  /\ \A p, q \in Processes : flight[p].pc # "none" /\ flight[q].pc # "none" => p = q
  /\ \A p \in Processes :
       /\ flight[p].pc = "exchange" =>
            /\ flight[p].base.refresh \in accepted
            /\ store = flight[p].base \/ store.refresh # flight[p].base.refresh
       /\ flight[p].pc = "save" =>
            /\ flight[p].new.refresh \in accepted
            /\ store.pushed => store.refresh # flight[p].new.refresh
       /\ flight[p].pc # "none" /\ store.pushed => store.refresh # flight[p].base.refresh
\* A token that is not saved yet is nowhere else, but that pushes hand on the one of a push.
FreshInv ==
  \A w \in Writers : Saving(w) =>
    /\ writer[w].mat.refresh \in accepted
    /\ store.refresh = writer[w].mat.refresh => store.pushed /\ writer[w].mat.pushed
    /\ \A p \in Processes :
         /\ flight[p].pc # "none" => flight[p].base.refresh # writer[w].mat.refresh
         /\ flight[p].pc = "save" => flight[p].new.refresh # writer[w].mat.refresh
    /\ \A v \in Writers \ {w} : Saving(v) /\ writer[v].mat.refresh = writer[w].mat.refresh =>
         writer[v].mat.pushed /\ writer[w].mat.pushed
Token == /\ \/ store.refresh = 0 \/ store.refresh \in accepted
            \/ \E p \in Processes : flight[p].pc = "save" /\ flight[p].base = store
         /\ FlightInv /\ FreshInv
TokenInv == stale \/ Token

\* Unless two writes crossed there is one at a time, and between its two halves the store and the
\* status differ in the one way its second half puts right.
Halfway(w) == writer[w].pc \in {"mark", "delete"}
WriteInv ==
  crossed \/ /\ \A v, w \in Writers : writer[v].pc # "idle" /\ writer[w].pc # "idle" => v = w
             /\ \A w \in Writers : /\ writer[w].pc = "mark" => store.gen # 0
                                   /\ writer[w].pc = "delete" => status = "draft"
             /\ (\A w \in Writers : ~Halfway(w)) /\ ~torn =>
                  ReadyIffConnected /\ SessionIsOfThisConnection

Inv == /\ McpTypeOK /\ ClientsInv /\ PromiseInv /\ PoolInv
       /\ MaterialInv /\ TokenInv /\ WriteInv

-----------------------------------------------------------------------------
(* Types. *)

\* The numbers and the phases.
LEMMA SmallTypes ==
  /\ MaxTokens \in Nat /\ MaxFaults \in Nat /\ MaxWrites \in Nat /\ MaxClients \in Nat
  /\ 0 \in 0..MaxTokens /\ NoMaterial \in Material
  /\ \A g \in 0..MaxTokens : Consented(g) \in Material
  /\ IdleReader \in [pc : ReaderPc, mat : Material] /\ NoFlight \in Flights
  /\ IdleWriter \in [pc : WriterPc, mat : Material]
  /\ NoSession \in [pc : {"none", "loading", "cached"}, origin : 0..MaxTokens]
  /\ IdleReader.pc = "idle" /\ IdleReader.mat = NoMaterial /\ NoFlight.pc = "none"
<1>1. /\ MaxTokens \in Nat /\ MaxFaults \in Nat /\ MaxWrites \in Nat /\ MaxClients \in Nat
      /\ 0 \in 0..MaxTokens
  BY CredentialAssumption, McpAssumption
<1>2. NoMaterial \in Material /\ \A g \in 0..MaxTokens : Consented(g) \in Material
  BY <1>1 DEF NoMaterial, Material, Consented
<1> QED
  BY <1>1, <1>2 DEF IdleReader, IdleWriter, NoFlight, NoSession, Flights, ReaderPc, WriterPc

\* The readers when a refresh ends.
LEMMA EndFlightType ==
  ASSUME CredTypeOK, NEW p \in Processes, NEW pc \in ReaderPc, NEW mat \in Material,
         EndFlight(p, pc, mat)
  PROVE  /\ reader' \in [Readers -> [pc : ReaderPc, mat : Material]]
         /\ flight' \in [Processes -> Flights]
<1>1. reader \in [Readers -> [pc : ReaderPc, mat : Material]] /\ flight \in [Processes -> Flights]
  BY DEF CredTypeOK
<1>2. [pc |-> pc, mat |-> mat] \in [pc : ReaderPc, mat : Material]
  OBVIOUS
<1>3. reader' \in [Readers -> [pc : ReaderPc, mat : Material]]
  BY <1>1, <1>2 DEF EndFlight
<1>4. flight' \in [Processes -> Flights]
  BY <1>1, SmallTypes DEF EndFlight
<1> QED BY <1>3, <1>4

\* What a refresh that goes on holds.
LEMMA FlightFacts ==
  ASSUME CredTypeOK, NEW p \in Processes, flight[p].pc # "none"
  PROVE  /\ flight[p] \in [pc : {"exchange", "save"}, base : {m \in Material : m.refresh # 0},
                          new : Material]
         /\ flight[p].pc \in {"exchange", "save"}
         /\ flight[p].base \in Material /\ flight[p].base.refresh \in 1..MaxTokens
         /\ flight[p].new \in Material
<1>1. flight[p] \in Flights
  BY DEF CredTypeOK
<1>2. flight[p] \in [pc : {"exchange", "save"}, base : {m \in Material : m.refresh # 0}, new : Material]
  BY <1>1 DEF Flights, NoFlight
<1>3. flight[p].base \in Material /\ flight[p].base.refresh # 0
  BY <1>2
<1>4. flight[p].base.refresh \in 1..MaxTokens
  BY <1>3, CredentialAssumption DEF Material
<1> QED BY <1>2, <1>3, <1>4

\* What the provider took and issued.
LEMMA TakesType ==
  ASSUME CredTypeOK, NEW p \in Processes, NEW sent, ProviderTakes(p, sent)
  PROVE  /\ issued' = issued + 1 /\ sent \in {0, issued + 1} /\ issued' \in 0..MaxTokens
         /\ expired \in 0..issued' /\ accepted' \subseteq 1..issued' /\ used' \subseteq Gens
<1>1. /\ issued \in Nat /\ MaxTokens \in Nat /\ issued < MaxTokens /\ accepted \subseteq 1..issued
      /\ expired \in 0..issued
  BY SmallTypes DEF CredTypeOK, ProviderTakes
<1>2. flight[p].base.refresh \in 1..MaxTokens
  BY FlightFacts DEF ProviderTakes
<1>3. used' \subseteq Gens
  BY <1>2 DEF ProviderTakes, CredTypeOK, Gens
<1>4. issued' = issued + 1 /\ sent \in {0, issued + 1}
  BY DEF ProviderTakes
<1>5. accepted' \subseteq accepted \cup {issued + 1}
  BY <1>4 DEF ProviderTakes
<1> QED BY <1>1, <1>3, <1>4, <1>5

\* An exchange: the refresh token is the old one, which stays valid, or a new one instead of it.
LEMMA ExchangeFacts ==
  ASSUME CredTypeOK, NEW p \in Processes, Exchange(p)
  PROVE  \E f \in Flights :
           /\ flight' = [flight EXCEPT ![p] = f]
           /\ f.pc = "save" /\ f.base = flight[p].base /\ f.new \in Material
           /\ f.new.gen = issued + 1 /\ f.new.origin = flight[p].base.origin
           /\ \/ f.new.refresh = flight[p].base.refresh /\ accepted' = accepted
              \/ /\ f.new.refresh = issued + 1
                 /\ accepted' = (accepted \ {flight[p].base.refresh}) \cup {issued + 1}
<1> DEFINE base == flight[p].base
           gen == issued + 1
           new(sent) == [base EXCEPT !.gen = gen, !.refresh = RefreshToken(base, sent)]
           f(sent) == [flight[p] EXCEPT !.pc = "save", !.new = new(sent)]
<1>1. /\ issued \in Nat /\ flight \in [Processes -> Flights] /\ issued < MaxTokens
      /\ flight[p].pc = "exchange" /\ MaxTokens \in Nat
  BY CredentialAssumption DEF CredTypeOK, Exchange, ProviderTakes
<1>2. /\ flight[p] \in [pc : {"exchange", "save"}, base : {m \in Material : m.refresh # 0}, new : Material]
      /\ base \in Material /\ base.refresh # 0
  BY <1>1, FlightFacts
<1>3. PICK sent \in {0, gen} :
         /\ accepted' = IF sent = 0 THEN accepted ELSE (accepted \ {base.refresh}) \cup {gen}
         /\ flight' = [flight EXCEPT ![p].pc = "save", ![p].new = new(sent)]
  BY DEF Exchange, ProviderTakes
<1>4. /\ new(sent) \in Material /\ new(sent).gen = gen /\ new(sent).origin = base.origin
      /\ new(sent).refresh = RefreshToken(base, sent)
  BY <1>1, <1>2, <1>3 DEF Material, RefreshToken
<1> HIDE DEF new
<1>5. flight' = [flight EXCEPT ![p] = f(sent)]
  BY <1>1, <1>3
<1>6. f(sent).pc = "save" /\ f(sent).base = base /\ f(sent).new = new(sent)
      /\ f(sent) \in [pc : {"exchange", "save"}, base : {m \in Material : m.refresh # 0}, new : Material]
  BY <1>2, <1>4
<1> HIDE DEF f
<1>7. f(sent) \in Flights
  BY <1>6 DEF Flights
<1> QED BY <1>1, <1>3, <1>4, <1>5, <1>6, <1>7 DEF RefreshToken

\* The steps of the credential keep the types.
LEMMA CredType ==
  ASSUME CredTypeOK, CredStep
  PROVE  CredTypeOK'
<1>1. /\ store \in Material /\ issued \in 0..MaxTokens /\ issued \in Nat
      /\ expired \in 0..issued /\ accepted \subseteq 1..issued
      /\ reader \in [Readers -> [pc : ReaderPc, mat : Material]]
      /\ flight \in [Processes -> Flights] /\ writer \in [Writers -> [pc : WriterPc, mat : Material]]
      /\ writes \in 0..MaxWrites /\ faults \in 0..MaxFaults /\ MaxTokens \in Nat
  BY SmallTypes DEF CredTypeOK
<1>2. {"resume", "joined", "done", "failed"} \subseteq ReaderPc
      /\ {"idle", "exchange", "merge", "save", "mark", "draft", "delete"} \subseteq WriterPc
  BY DEF ReaderPc, WriterPc
<1>3. ASSUME issued < MaxTokens
      PROVE  /\ issued + 1 \in 1..MaxTokens /\ issued + 1 \in 0..MaxTokens
             /\ expired \in 0..(issued + 1) /\ 1..issued \subseteq 1..(issued + 1)
             /\ issued + 1 \in 1..(issued + 1)
  BY <1>1, <1>3
<1>4. CASE Expire
  <2>1. expired + 1 \in 0..issued
    BY <1>1, <1>4 DEF Expire
  <2> QED BY <1>4, <2>1 DEF Expire, CredTypeOK
<1>5. ASSUME NEW r \in Readers, QueryMaterial(r) PROVE CredTypeOK'
  <2>1. [pc |-> "resume", mat |-> store] \in [pc : ReaderPc, mat : Material]
    BY <1>1, <1>2
  <2>2. reader' \in [Readers -> [pc : ReaderPc, mat : Material]]
    BY <1>1, <1>5, <2>1 DEF QueryMaterial
  <2> QED BY <1>5, <2>2 DEF QueryMaterial, CredTypeOK
<1>6. ASSUME NEW r \in Readers, ResumeRead(r) PROVE CredTypeOK'
  <2> DEFINE mat == reader[r].mat
             p == home[r]
             begun == [NoFlight EXCEPT !.pc = "exchange", !.base = mat]
  <2>1. mat \in Material /\ p \in Processes /\ reader[r] \in [pc : ReaderPc, mat : Material]
    BY <1>1 DEF CredTypeOK
  <2>2. /\ [reader[r] EXCEPT !.pc = "done"] \in [pc : ReaderPc, mat : Material]
        /\ [reader[r] EXCEPT !.pc = "failed"] \in [pc : ReaderPc, mat : Material]
        /\ [IdleReader EXCEPT !.pc = "joined"] \in [pc : ReaderPc, mat : Material]
    BY <1>2, <2>1, SmallTypes
  <2>3. reader' \in [Readers -> [pc : ReaderPc, mat : Material]]
    BY <1>1, <1>6, <2>2 DEF ResumeRead
  <2>4. ShouldRefresh(mat) => begun \in Flights
    BY <2>1, SmallTypes DEF ShouldRefresh, NoFlight, Flights
  <2>5. flight' = flight \/ (ShouldRefresh(mat) /\ flight' = [flight EXCEPT ![p] = begun])
    BY <1>6 DEF ResumeRead
  <2> HIDE DEF begun
  <2>6. flight' \in [Processes -> Flights]
    BY <1>1, <2>4, <2>5
  <2>7. stale' \in BOOLEAN
    BY <1>6 DEF ResumeRead, CredTypeOK
  <2> QED BY <1>6, <2>3, <2>6, <2>7 DEF ResumeRead, CredTypeOK
<1>7. ASSUME NEW p \in Processes, Exchange(p) PROVE CredTypeOK'
  <2>1. \E f \in Flights : flight' = [flight EXCEPT ![p] = f]
    BY <1>7, ExchangeFacts
  <2>2. flight' \in [Processes -> Flights]
    BY <1>1, <2>1
  <2>3. issued' \in 0..MaxTokens /\ expired' \in 0..issued' /\ accepted' \subseteq 1..issued'
        /\ used' \subseteq Gens
    BY <1>7, TakesType DEF Exchange
  <2> QED BY <1>7, <2>2, <2>3 DEF Exchange, CredTypeOK
<1>8. ASSUME NEW p \in Processes, RefreshFails(p) PROVE CredTypeOK'
  <2>1. flight[p].base \in Material
    BY <1>8, FlightFacts DEF RefreshFails
  <2>2. /\ reader' \in [Readers -> [pc : ReaderPc, mat : Material]]
        /\ flight' \in [Processes -> Flights]
    BY <1>2, <1>8, <2>1, EndFlightType DEF RefreshFails
  <2>3. faults' \in 0..MaxFaults
    BY <1>1, <1>8, SmallTypes DEF RefreshFails, Fault
  <2> QED BY <1>8, <2>2, <2>3 DEF RefreshFails, CredTypeOK
<1>17. ASSUME NEW p \in Processes, AnswerLost(p) PROVE CredTypeOK'
  <2>1. PICK sent : ProviderTakes(p, sent) /\ stale' = (stale \/ sent # 0)
    BY <1>17 DEF AnswerLost
  <2>2. flight[p].base \in Material
    BY <2>1, FlightFacts DEF ProviderTakes
  <2>3. /\ reader' \in [Readers -> [pc : ReaderPc, mat : Material]]
        /\ flight' \in [Processes -> Flights]
    BY <1>2, <1>17, <2>2, EndFlightType DEF AnswerLost
  <2>4. faults' \in 0..MaxFaults /\ stale' \in BOOLEAN
    BY <1>1, <1>17, <2>1, SmallTypes DEF AnswerLost, Fault, CredTypeOK
  <2>5. issued' \in 0..MaxTokens /\ expired' \in 0..issued' /\ accepted' \subseteq 1..issued'
        /\ used' \subseteq Gens
    BY <1>17, <2>1, TakesType DEF AnswerLost
  <2> QED BY <1>17, <2>3, <2>4, <2>5 DEF AnswerLost, CredTypeOK
<1>9. ASSUME NEW p \in Processes, SaveRefreshed(p) PROVE CredTypeOK'
  <2>1. flight[p].new \in Material
    BY <1>9, FlightFacts DEF SaveRefreshed
  <2>2. /\ reader' \in [Readers -> [pc : ReaderPc, mat : Material]]
        /\ flight' \in [Processes -> Flights]
    BY <1>2, <1>9, <2>1, EndFlightType DEF SaveRefreshed
  <2>3. crossed' \in BOOLEAN
    BY <1>9 DEF SaveRefreshed, CredTypeOK
  <2> QED BY <1>9, <2>1, <2>2, <2>3 DEF SaveRefreshed, CredTypeOK
<1>10. ASSUME NEW p \in Processes, SaveFails(p) PROVE CredTypeOK'
  <2>1. /\ reader' \in [Readers -> [pc : ReaderPc, mat : Material]]
        /\ flight' \in [Processes -> Flights]
    BY <1>2, <1>10, SmallTypes, EndFlightType DEF SaveFails
  <2>2. faults' \in 0..MaxFaults
    BY <1>1, <1>10, SmallTypes DEF SaveFails, Fault
  <2> QED BY <1>10, <2>1, <2>2 DEF SaveFails, CredTypeOK
<1>11. ASSUME NEW w \in Writers, NEW pc \in WriterPc, NEW mat \in Material, WriterAt(w, pc, mat)
       PROVE  writer' \in [Writers -> [pc : WriterPc, mat : Material]]
  BY <1>1, <1>11 DEF WriterAt
<1>12. ASSUME NEW w \in Writers, NEW pc \in WriterPc, Begin(w, pc) PROVE CredTypeOK'
  <2>1. writer' \in [Writers -> [pc : WriterPc, mat : Material]]
    BY <1>11, <1>12, SmallTypes DEF Begin
  <2>2. writes' \in 0..MaxWrites /\ crossed' \in BOOLEAN
    BY <1>1, <1>12, SmallTypes DEF Begin, CredTypeOK
  <2> QED BY <1>12, <2>1, <2>2 DEF Begin, CredTypeOK
<1>13. ASSUME NEW w \in Writers, CompleteCallback(w) PROVE CredTypeOK'
  <2>1. issued < MaxTokens /\ issued' = issued + 1
    BY <1>13 DEF CompleteCallback
  <2>2. writer' \in [Writers -> [pc : WriterPc, mat : Material]]
    BY <1>2, <1>3, <1>11, <1>13, <2>1, SmallTypes DEF CompleteCallback
  <2>3. issued' \in 0..MaxTokens /\ expired' \in 0..issued' /\ accepted' \subseteq 1..issued'
    BY <1>1, <1>3, <1>13, <2>1 DEF CompleteCallback
  <2> QED BY <1>13, <2>2, <2>3 DEF CompleteCallback, CredTypeOK
<1>14. ASSUME NEW w \in Writers, MergePush(w) PROVE CredTypeOK'
  <2>1. issued < MaxTokens /\ issued' = issued + 1
    BY <1>14 DEF MergePush
  <2>2. PICK sent \in {0, issued'} :
       /\ accepted' = IF sent = 0 THEN accepted ELSE accepted \cup {sent}
       /\ WriterAt(w, "save", [gen |-> issued', origin |-> issued', pushed |-> TRUE,
                               refresh |-> IF sent = 0 THEN Preserved(store) ELSE sent])
    BY <1>14 DEF MergePush
  <2>3. (IF sent = 0 THEN Preserved(store) ELSE sent) \in 0..MaxTokens
    BY <1>1, <1>3, <2>1, <2>2 DEF Material, Preserved
  <2>4. [gen |-> issued', origin |-> issued', pushed |-> TRUE,
         refresh |-> IF sent = 0 THEN Preserved(store) ELSE sent] \in Material
    BY <1>3, <2>1, <2>3 DEF Material
  <2>5. writer' \in [Writers -> [pc : WriterPc, mat : Material]]
    BY <1>2, <1>11, <2>2, <2>4
  <2>6. issued' \in 0..MaxTokens /\ expired' \in 0..issued' /\ accepted' \subseteq 1..issued'
    BY <1>1, <1>3, <1>14, <2>1, <2>2 DEF MergePush
  <2> QED BY <1>14, <2>5, <2>6 DEF MergePush, CredTypeOK
<1>15. ASSUME NEW w \in Writers, SaveMaterial(w) \/ MarkConnected(w) \/ SetDraft(w) \/ DeleteMaterial(w)
       PROVE  CredTypeOK'
  <2>1. writer[w].mat \in Material
    BY <1>1
  <2>2. writer' \in [Writers -> [pc : WriterPc, mat : Material]]
    BY <1>2, <1>11, <1>15, SmallTypes DEF SaveMaterial, MarkConnected, SetDraft, DeleteMaterial
  <2> QED
    BY <1>15, <2>1, <2>2, SmallTypes
       DEF SaveMaterial, MarkConnected, SetDraft, DeleteMaterial, Evict, Deleted, CredTypeOK
<1>18. ASSUME NEW w \in Writers, WriteFails(w) PROVE CredTypeOK'
  <2>1. writer' \in [Writers -> [pc : WriterPc, mat : Material]]
    BY <1>2, <1>11, <1>18, SmallTypes DEF WriteFails
  <2>2. store' \in Material /\ status' \in {"draft", "ready"}
    BY <1>1, <1>18, SmallTypes DEF WriteFails, Deleted, CredTypeOK
  <2>3. faults' \in 0..MaxFaults /\ torn' \in BOOLEAN
    BY <1>1, <1>18, SmallTypes DEF WriteFails, Fault, CredTypeOK
  <2> QED BY <1>18, <2>1, <2>2, <2>3 DEF WriteFails, CredTypeOK
<1>16. CASE GetSession \/ CreateSession
  <2>1. session' \in [pc : {"none", "loading", "cached"}, origin : 0..MaxTokens]
    BY <1>1, <1>16, SmallTypes DEF GetSession, CreateSession, Material
  <2> QED BY <1>16, <2>1 DEF GetSession, CreateSession, CredTypeOK
<1> QED
  BY <1>2, <1>4, <1>5, <1>6, <1>7, <1>8, <1>9, <1>10, <1>12, <1>13, <1>14, <1>15, <1>16, <1>17, <1>18
     DEF CredStep, BeginConsent, BeginPush, BeginDisconnect

\* Who is opening a client when an opening settles.
LEMMA SettleFacts ==
  ASSUME McpTypeOK, NEW r \in Readers, NEW ok \in BOOLEAN, Opens(r), Settle(r, ok)
  PROVE  /\ caller' \in [Readers -> [pc : CallerPc, of : Readers \cup {NoOne}]]
         /\ opening' \in [Processes -> [Servers -> Readers \cup {NoOne}]]
         /\ caller'[r] = IdleCaller
         /\ \A q \in Readers : q # r =>
              caller'[q] = IF caller[q].pc = "waiting" /\ caller[q].of = r THEN IdleCaller ELSE caller[q]
         /\ \A p \in Processes, s \in Servers :
              opening'[p][s] = IF p = home[r] /\ s = key[r] THEN NoOne ELSE opening[p][s]
         /\ Openers' = Openers \ {r}
<1>1. /\ caller \in [Readers -> [pc : CallerPc, of : Readers \cup {NoOne}]]
      /\ opening \in [Processes -> [Servers -> Readers \cup {NoOne}]]
      /\ home[r] \in Processes /\ key[r] \in Servers
  BY DEF McpTypeOK, CredTypeOK
<1>2. IdleCaller \in [pc : CallerPc, of : Readers \cup {NoOne}] /\ IdleCaller.pc = "idle"
  BY DEF IdleCaller, CallerPc
<1>3. /\ caller'[r] = IdleCaller
      /\ \A q \in Readers : q # r =>
           caller'[q] = IF caller[q].pc = "waiting" /\ caller[q].of = r THEN IdleCaller ELSE caller[q]
  BY DEF Settle
<1>4. caller' \in [Readers -> [pc : CallerPc, of : Readers \cup {NoOne}]]
  BY <1>1, <1>2 DEF Settle
<1>5. opening' = [opening EXCEPT ![home[r]] = [opening[home[r]] EXCEPT ![key[r]] = NoOne]]
  BY DEF Settle, Forgets
<1>6. opening' \in [Processes -> [Servers -> Readers \cup {NoOne}]]
  BY <1>1, <1>5
<1>7. \A p \in Processes, s \in Servers :
        opening'[p][s] = IF p = home[r] /\ s = key[r] THEN NoOne ELSE opening[p][s]
  BY <1>1, <1>5
<1>8. Openers' = Openers \ {r}
  BY <1>2, <1>3 DEF Openers, Opens
<1> QED BY <1>3, <1>4, <1>6, <1>7, <1>8

\* The steps of the pools keep the types, and the number of clients within its bound.
LEMMA McpType ==
  ASSUME McpTypeOK, ClientsInv, McpStep
  PROVE  McpTypeOK' /\ ClientsInv'
<1>1. /\ CredTypeOK /\ key \in [Readers -> Servers] /\ home \in [Readers -> Processes]
      /\ caller \in [Readers -> [pc : CallerPc, of : Readers \cup {NoOne}]]
      /\ pool \in [Processes -> [Servers -> 0..MaxClients]]
      /\ opening \in [Processes -> [Servers -> Readers \cup {NoOne}]]
      /\ closing \in [Processes -> SUBSET (0..MaxClients)]
      /\ clients \in 0..MaxClients /\ live \subseteq 1..clients /\ shut \subseteq Processes
      /\ reader \in [Readers -> [pc : ReaderPc, mat : Material]]
      /\ MaxClients \in Nat /\ clients \in Nat
  BY SmallTypes DEF McpTypeOK, CredTypeOK
<1>2. IsFiniteSet(Openers) /\ Cardinality(Openers) \in Nat /\ clients + Cardinality(Openers) <= MaxClients
  BY FS_CardinalityType DEF ClientsInv, Opened, Openers
<1>0. Opened' = clients' + Cardinality(Openers') /\ ClientsInv' = (IsFiniteSet(Openers') /\ Opened' <= MaxClients)
  BY DEF Opened, Openers, ClientsInv
<1>3. ASSUME Openers' = Openers, clients' = clients PROVE ClientsInv'
  BY <1>2, <1>3 DEF ClientsInv, Opened, Openers
<1>4. Opens(CHOOSE r \in Readers : TRUE) \in BOOLEAN /\ "query" \in ReaderPc
      /\ {"idle", "reading", "connect", "waiting"} \subseteq CallerPc
  BY DEF Opens, ReaderPc, CallerPc
<1>5. ASSUME NEW r \in Readers, GetClient(r) PROVE McpTypeOK' /\ ClientsInv'
  <2>1. r \notin Openers /\ UNCHANGED <<store, status, issued, expired, accepted, flight, writer,
           session, home, writes, faults, used, stale, crossed, torn, key, pool, closing, clients, live, shut>>
    BY <1>5 DEF GetClient, Openers, Opens
  <2>2. CASE UNCHANGED <<caller, opening, reader>>
    BY <1>1, <1>3, <2>1, <2>2 DEF McpTypeOK, CredTypeOK, Openers, Opens
  <2>3. CASE /\ caller' = [caller EXCEPT ![r] = [pc |-> "waiting", of |-> Opening(r)]]
             /\ UNCHANGED <<opening, reader>>
    <3>1. Opening(r) \in Readers \cup {NoOne}
      BY <1>1 DEF Opening
    <3>2. [pc |-> "waiting", of |-> Opening(r)] \in [pc : CallerPc, of : Readers \cup {NoOne}]
      BY <1>4, <3>1
    <3>3. caller' \in [Readers -> [pc : CallerPc, of : Readers \cup {NoOne}]]
      BY <1>1, <2>3, <3>2
    <3>4. Openers' = Openers
      BY <1>1, <2>1, <2>3 DEF Openers, Opens
    <3> QED BY <1>1, <1>3, <2>1, <2>3, <3>3, <3>4 DEF McpTypeOK, CredTypeOK
  <2>4. CASE /\ Opened < MaxClients
             /\ caller' = [caller EXCEPT ![r] = [IdleCaller EXCEPT !.pc = "reading"]]
             /\ opening' = [opening EXCEPT ![home[r]][key[r]] = r]
             /\ reader' = [reader EXCEPT ![r].pc = "query"]
    <3> home[r] \in Processes /\ key[r] \in Servers
      BY <1>1
    <3>0. /\ [opening[home[r]] EXCEPT ![key[r]] = r] \in [Servers -> Readers \cup {NoOne}]
          /\ opening' = [opening EXCEPT ![home[r]] = [opening[home[r]] EXCEPT ![key[r]] = r]]
      BY <1>1, <2>4
    <3>1. /\ [IdleCaller EXCEPT !.pc = "reading"] \in [pc : CallerPc, of : Readers \cup {NoOne}]
          /\ [IdleCaller EXCEPT !.pc = "reading"].pc = "reading"
      BY <1>4 DEF IdleCaller
    <3>2. caller' \in [Readers -> [pc : CallerPc, of : Readers \cup {NoOne}]]
      BY <1>1, <2>4, <3>1
    <3>3. opening' \in [Processes -> [Servers -> Readers \cup {NoOne}]]
      BY <1>1, <3>0
    <3>4. reader' \in [Readers -> [pc : ReaderPc, mat : Material]]
      BY <1>1, <1>4, <2>4
    <3> CredTypeOK'
      BY <2>1, <3>4 DEF McpTypeOK, CredTypeOK
    <3>5. McpTypeOK'
      BY <1>1, <2>1, <3>2, <3>3 DEF McpTypeOK
    <3>6. Openers' = Openers \cup {r}
      BY <1>1, <2>4, <3>1 DEF Openers, Opens
    <3>7. IsFiniteSet(Openers \cup {r}) /\ Cardinality(Openers \cup {r}) = Cardinality(Openers) + 1
      BY <1>2, <2>1, FS_AddElement
    <3>8. clients + Cardinality(Openers) < MaxClients
      BY <2>4 DEF Opened, Openers
    <3>9. ClientsInv'
      <4>1. clients' = clients /\ clients + (Cardinality(Openers) + 1) <= MaxClients
        BY <1>1, <1>2, <2>1, <3>8
      <4> QED BY <1>0, <3>6, <3>7, <4>1
    <3> QED BY <3>5, <3>9
  <2> QED BY <1>5, <2>2, <2>3, <2>4 DEF GetClient
<1>6. ASSUME NEW r \in Readers, NEW ok \in BOOLEAN, Opens(r), Settle(r, ok)
      PROVE  /\ caller' \in [Readers -> [pc : CallerPc, of : Readers \cup {NoOne}]]
             /\ opening' \in [Processes -> [Servers -> Readers \cup {NoOne}]]
             /\ clients' = clients => ClientsInv'
             /\ clients' = clients + 1 => ClientsInv' /\ clients + 1 <= MaxClients
  <2>1. /\ caller' \in [Readers -> [pc : CallerPc, of : Readers \cup {NoOne}]]
        /\ opening' \in [Processes -> [Servers -> Readers \cup {NoOne}]]
        /\ Openers' = Openers \ {r}
    BY <1>6, SettleFacts
  <2>2. r \in Openers
    BY <1>6 DEF Openers
  <2>3. IsFiniteSet(Openers \ {r}) /\ Cardinality(Openers \ {r}) = Cardinality(Openers) - 1
        /\ Cardinality(Openers \ {r}) \in Nat
    BY <1>2, <2>2, FS_RemoveElement, FS_CardinalityType
  <2>4. /\ clients' = clients => ClientsInv'
        /\ clients' = clients + 1 => ClientsInv' /\ clients + 1 <= MaxClients
    <3>1. /\ clients + (Cardinality(Openers) - 1) <= MaxClients
          /\ (clients + 1) + (Cardinality(Openers) - 1) <= MaxClients /\ clients + 1 <= MaxClients
      BY <1>1, <1>2, <2>3
    <3> QED BY <1>0, <2>1, <2>3, <3>1
  <2> QED BY <2>1, <2>4
<1>7. ASSUME NEW r \in Readers, TokenRead(r) PROVE McpTypeOK' /\ ClientsInv'
  <2>1. Opens(r) /\ UNCHANGED <<store, status, issued, expired, accepted, flight, writer,
           session, home, writes, faults, used, stale, crossed, torn, key, pool, closing, clients, live, shut>>
    BY <1>7 DEF TokenRead, Opens
  <2>2. reader' \in [Readers -> [pc : ReaderPc, mat : Material]]
    BY <1>1, <1>7, SmallTypes DEF TokenRead
  <2>3. CASE Settle(r, FALSE)
    BY <1>1, <1>6, <2>1, <2>2, <2>3 DEF McpTypeOK, CredTypeOK
  <2>4. CASE caller' = [caller EXCEPT ![r].pc = "connect"] /\ UNCHANGED opening
    <3>1. /\ [caller[r] EXCEPT !.pc = "connect"] \in [pc : CallerPc, of : Readers \cup {NoOne}]
          /\ [caller[r] EXCEPT !.pc = "connect"].pc = "connect"
      BY <1>1, <1>4
    <3>2. caller' = [caller EXCEPT ![r] = [caller[r] EXCEPT !.pc = "connect"]]
      BY <2>4
    <3>3. caller' \in [Readers -> [pc : CallerPc, of : Readers \cup {NoOne}]]
      BY <1>1, <3>1, <3>2
    <3>4. Openers' = Openers
      BY <1>1, <2>1, <3>1, <3>2 DEF Openers, Opens
    <3> QED BY <1>1, <1>3, <2>1, <2>2, <2>4, <3>3, <3>4 DEF McpTypeOK, CredTypeOK
  <2> QED BY <1>7, <2>3, <2>4 DEF TokenRead
<1>8. ASSUME NEW r \in Readers, Connected(r) PROVE McpTypeOK' /\ ClientsInv'
  <2>1. /\ Opens(r) /\ Settle(r, TRUE) /\ clients' = clients + 1
        /\ live' = live \cup {clients + 1} /\ UNCHANGED <<credVars, key, closing, shut>>
        /\ pool' = [pool EXCEPT ![home[r]][key[r]] = clients + 1]
    BY <1>8 DEF Connected, Opens
  <2>2. clients + 1 <= MaxClients /\ ClientsInv'
        /\ caller' \in [Readers -> [pc : CallerPc, of : Readers \cup {NoOne}]]
        /\ opening' \in [Processes -> [Servers -> Readers \cup {NoOne}]]
    BY <1>6, <2>1
  <2>3. clients' \in 0..MaxClients /\ live' \subseteq 1..clients'
    BY <1>1, <2>1, <2>2
  <2>4. pool' \in [Processes -> [Servers -> 0..MaxClients]]
    BY <1>1, <2>1, <2>3
  <2>5. CredTypeOK'
    BY <1>1, <2>1 DEF credVars, CredTypeOK
  <2> QED BY <1>1, <2>1, <2>2, <2>3, <2>4, <2>5 DEF McpTypeOK
<1>9. \A kind : Fault(kind) => faults' \in 0..MaxFaults
  BY SmallTypes DEF Fault, McpTypeOK, CredTypeOK
<1>10. ASSUME NEW r \in Readers, ConnectFails(r) PROVE McpTypeOK' /\ ClientsInv'
  <2>1. /\ Opens(r) /\ Settle(r, FALSE) /\ faults' \in 0..MaxFaults
        /\ UNCHANGED <<store, status, issued, expired, accepted, reader, flight, writer,
           session, home, writes, used, stale, crossed, torn, key, pool, closing, clients, live, shut>>
    BY <1>9, <1>10 DEF ConnectFails, Opens
  <2>2. CredTypeOK'
    BY <1>1, <2>1 DEF CredTypeOK
  <2> QED BY <1>1, <1>6, <2>1, <2>2 DEF McpTypeOK
<1>11. ASSUME NEW p \in Stopping, CloseAll(p) PROVE McpTypeOK' /\ ClientsInv'
  <2>1. p \in Processes
    BY McpAssumption
  <2>2. {pool[p][s] : s \in Servers} \ {0} \in SUBSET (0..MaxClients)
    BY <1>1, <2>1
  <2>3. closing' \in [Processes -> SUBSET (0..MaxClients)] /\ shut' \subseteq Processes
    BY <1>1, <1>11, <2>1, <2>2 DEF CloseAll
  <2>4. /\ faults' \in 0..MaxFaults
        /\ UNCHANGED <<store, status, issued, expired, accepted, reader, flight, writer, session,
                       home, writes, used, stale, crossed, torn, key, caller, pool, opening, clients, live>>
    BY <1>9, <1>11 DEF CloseAll
  <2>5. CredTypeOK'
    BY <1>1, <2>4 DEF CredTypeOK
  <2>6. McpTypeOK'
    BY <1>1, <2>3, <2>4, <2>5 DEF McpTypeOK
  <2> QED BY <1>3, <2>4, <2>6 DEF Openers, Opens
<1>12. ASSUME NEW p \in Stopping, Cleared(p) PROVE McpTypeOK' /\ ClientsInv'
  <2>1. {0} \in SUBSET (0..MaxClients) /\ [s \in Servers |-> 0] \in [Servers -> 0..MaxClients]
        /\ [s \in Servers |-> NoOne] \in [Servers -> Readers \cup {NoOne}]
    BY <1>1
  <2>2. /\ closing' \in [Processes -> SUBSET (0..MaxClients)]
        /\ pool' \in [Processes -> [Servers -> 0..MaxClients]]
        /\ opening' \in [Processes -> [Servers -> Readers \cup {NoOne}]]
    BY <1>1, <1>12, <2>1 DEF Cleared
  <2>3. UNCHANGED <<credVars, key, caller, clients, shut>> /\ live' \subseteq 1..clients
    BY <1>1, <1>12 DEF Cleared
  <2>4. CredTypeOK'
    BY <1>1, <2>3 DEF credVars, CredTypeOK
  <2>5. McpTypeOK'
    BY <1>1, <2>2, <2>3, <2>4 DEF McpTypeOK
  <2> QED BY <1>3, <2>3, <2>5 DEF Openers, Opens
<1> QED BY <1>5, <1>7, <1>8, <1>10, <1>11, <1>12 DEF McpStep

-----------------------------------------------------------------------------
(* Promises settle. *)

\* A reader that joined a refresh.
JoinedInv == \A r \in Readers : reader[r].pc = "joined" => flight[home[r]].pc # "none"

\* When a refresh ends, nobody is left on its promise.
LEMMA EndFlightJoined ==
  ASSUME CredTypeOK, JoinedInv, NEW p \in Processes, NEW pc \in ReaderPc \ {"joined"},
         NEW mat \in Material, EndFlight(p, pc, mat), UNCHANGED home
  PROVE  JoinedInv'
<1>1. /\ flight' = [flight EXCEPT ![p] = NoFlight] /\ home' = home
      /\ reader' = [r \in Readers |-> IF home[r] = p /\ reader[r].pc = "joined"
                                      THEN [pc |-> pc, mat |-> mat] ELSE reader[r]]
      /\ flight \in [Processes -> Flights] /\ home \in [Readers -> Processes]
  BY DEF EndFlight, CredTypeOK
<1>2. ASSUME NEW r \in Readers, reader'[r].pc = "joined" PROVE flight'[home'[r]].pc # "none"
  <2>1. ~(home[r] = p /\ reader[r].pc = "joined")
    BY <1>1, <1>2
  <2>2. reader[r].pc = "joined" /\ home[r] # p
    BY <1>1, <1>2, <2>1
  <2>3. flight'[home[r]] = flight[home[r]]
    BY <1>1, <2>2
  <2> QED BY <1>1, <2>2, <2>3 DEF JoinedInv
<1> QED BY <1>2 DEF JoinedInv

\* The steps of the credential: who joins a refresh finds it, and it ends for all at once.
LEMMA CredJoined ==
  ASSUME CredTypeOK, JoinedInv, CredStep
  PROVE  JoinedInv'
<1>1. /\ reader \in [Readers -> [pc : ReaderPc, mat : Material]]
      /\ flight \in [Processes -> Flights] /\ home \in [Readers -> Processes]
  BY DEF CredTypeOK
<1>2. home' = home
  BY DEF CredStep, Expire, GetSession, CreateSession, QueryMaterial, ResumeRead, Exchange,
         RefreshFails, AnswerLost, SaveRefreshed, SaveFails, BeginConsent, BeginPush, BeginDisconnect, Begin,
         CompleteCallback, MergePush, SaveMaterial, MarkConnected, SetDraft, DeleteMaterial, WriteFails
<1>3. ASSUME reader' = reader, flight' = flight PROVE JoinedInv'
  BY <1>2, <1>3 DEF JoinedInv
<1>4. ASSUME NEW r \in Readers, QueryMaterial(r) PROVE JoinedInv'
  <2>1. flight' = flight /\ reader'[r].pc = "resume" /\ \A q \in Readers : q # r => reader'[q] = reader[q]
    BY <1>1, <1>4 DEF QueryMaterial
  <2> QED BY <1>2, <2>1 DEF JoinedInv
<1>5. ASSUME NEW r \in Readers, ResumeRead(r) PROVE JoinedInv'
  <2>1. \A q \in Readers : q # r => reader'[q] = reader[q]
    BY <1>1, <1>5 DEF ResumeRead
  <2>2. CASE UNCHANGED flight
    <3>1. reader'[r].pc = "joined" => flight[home[r]].pc # "none"
      <4>1. CASE ~ShouldRefresh(reader[r].mat)
        <5>1. PICK pc \in {"failed", "done"} : reader' = [reader EXCEPT ![r] = [reader[r] EXCEPT !.pc = pc]]
          BY <1>5, <4>1 DEF ResumeRead
        <5>2. reader'[r].pc = pc
          BY <1>1, <5>1
        <5> QED BY <5>2
      <4>2. CASE flight[home[r]].pc # "none"
        BY <4>2
      <4>3. CASE ShouldRefresh(reader[r].mat) /\ flight[home[r]].pc = "none"
        <5>1. flight' = [flight EXCEPT ![home[r]] = [NoFlight EXCEPT !.pc = "exchange",
                                                                     !.base = reader[r].mat]]
          BY <1>5, <4>3 DEF ResumeRead, NotInFlight
        <5>2. [NoFlight EXCEPT !.pc = "exchange", !.base = reader[r].mat].pc = "exchange"
          BY DEF NoFlight
        <5>3. flight'[home[r]].pc = "exchange"
          BY <1>1, <5>1, <5>2
        <5> QED BY <2>2, <4>3, <5>3
      <4> QED BY <4>1, <4>2, <4>3
    <3> QED BY <1>2, <2>1, <2>2, <3>1 DEF JoinedInv
  <2>3. CASE flight' = [flight EXCEPT ![home[r]] = [NoFlight EXCEPT !.pc = "exchange",
                                                                    !.base = reader[r].mat]]
    <3>1. [NoFlight EXCEPT !.pc = "exchange", !.base = reader[r].mat].pc = "exchange"
      BY DEF NoFlight
    <3>2. \A q \in Processes : flight'[q].pc # "none" \/ (q # home[r] /\ flight'[q] = flight[q])
      BY <1>1, <2>3, <3>1
    <3>3. flight'[home[r]].pc # "none"
      BY <1>1, <2>3, <3>1
    <3> QED BY <1>1, <1>2, <2>1, <3>2, <3>3 DEF JoinedInv
  <2> QED BY <1>5, <2>2, <2>3 DEF ResumeRead
<1>6. ASSUME NEW p \in Processes, Exchange(p) PROVE JoinedInv'
  <2>1. PICK f \in Flights : flight' = [flight EXCEPT ![p] = f] /\ f.pc = "save"
    BY <1>6, ExchangeFacts
  <2>2. reader' = reader /\ \A q \in Processes : flight'[q].pc # "none" \/ flight'[q] = flight[q]
    BY <1>1, <1>6, <2>1 DEF Exchange
  <2> QED BY <1>1, <1>2, <2>2 DEF JoinedInv
<1>7. ASSUME NEW p \in Processes, RefreshFails(p) \/ AnswerLost(p) \/ SaveRefreshed(p) \/ SaveFails(p)
      PROVE  JoinedInv'
  <2>1. flight[p].pc # "none"
    BY <1>7 DEF RefreshFails, AnswerLost, ProviderTakes, SaveRefreshed, SaveFails
  <2>2. flight[p].base \in Material /\ flight[p].new \in Material /\ NoMaterial \in Material
    BY <2>1, FlightFacts, SmallTypes
  <2>3. \/ EndFlight(p, "done", flight[p].base) \/ EndFlight(p, "done", flight[p].new)
        \/ EndFlight(p, "failed", NoMaterial)
    BY <1>7 DEF RefreshFails, AnswerLost, SaveRefreshed, SaveFails
  <2>4. {"done", "failed"} \subseteq ReaderPc \ {"joined"}
    BY DEF ReaderPc
  <2> QED BY <1>2, <2>2, <2>3, <2>4, EndFlightJoined
<1>8. CASE Expire \/ GetSession \/ CreateSession
  BY <1>3, <1>8 DEF Expire, GetSession, CreateSession
<1>9. ASSUME NEW w \in Writers,
             \/ BeginConsent(w) \/ BeginPush(w) \/ BeginDisconnect(w) \/ CompleteCallback(w)
             \/ MergePush(w) \/ SaveMaterial(w) \/ MarkConnected(w) \/ SetDraft(w) \/ DeleteMaterial(w)
             \/ WriteFails(w)
      PROVE  JoinedInv'
  BY <1>3, <1>9 DEF BeginConsent, BeginPush, BeginDisconnect, Begin, CompleteCallback, MergePush,
                    SaveMaterial, MarkConnected, SetDraft, DeleteMaterial, WriteFails
<1> QED BY <1>4, <1>5, <1>6, <1>7, <1>8, <1>9 DEF CredStep

\* Settling an opening: its promise is under its own key, so no other promise goes, and all who
\* wait for it are answered.
LEMMA SettlePromise ==
  ASSUME McpTypeOK, PromiseInv, NEW r \in Readers, NEW ok \in BOOLEAN, Opens(r), Settle(r, ok),
         UNCHANGED <<home, key>>
  PROVE  /\ \A p \in Processes, s \in Servers : opening'[p][s] # NoOne =>
              /\ Opens(opening[p][s])'
              /\ home[opening'[p][s]] = p /\ key[opening'[p][s]] = s
         /\ \A q \in Readers : caller'[q].pc = "waiting" =>
              Opens(caller[q].of)' /\ caller'[q].of # NoOne
<1>1. /\ caller'[r] = IdleCaller
      /\ \A q \in Readers : q # r =>
           caller'[q] = IF caller[q].pc = "waiting" /\ caller[q].of = r THEN IdleCaller ELSE caller[q]
      /\ \A p \in Processes, s \in Servers :
           opening'[p][s] = IF p = home[r] /\ s = key[r] THEN NoOne ELSE opening[p][s]
  BY SettleFacts
<1>2. \A q \in Readers : caller[q].of \in Readers \cup {NoOne}
      /\ opening \in [Processes -> [Servers -> Readers \cup {NoOne}]]
      /\ NoOne \notin Readers
  BY McpAssumption DEF McpTypeOK
<1>3. ASSUME NEW q \in Readers, q # r, Opens(q) PROVE Opens(q)'
  BY <1>1, <1>3 DEF Opens
<1>4. ASSUME NEW p \in Processes, NEW s \in Servers, opening'[p][s] # NoOne
      PROVE  /\ Opens(opening[p][s])'
             /\ home[opening'[p][s]] = p /\ key[opening'[p][s]] = s
  <2>1. ~(p = home[r] /\ s = key[r]) /\ opening'[p][s] = opening[p][s]
    BY <1>1, <1>4
  <2>2. /\ opening[p][s] \in Readers /\ Opens(opening[p][s])
        /\ home[opening[p][s]] = p /\ key[opening[p][s]] = s
    BY <1>2, <1>4, <2>1 DEF PromiseInv, PromisesSettle
  <2>3. opening[p][s] # r
    BY <2>1, <2>2
  <2>4. Opens(opening[p][s])'
    <3> DEFINE o == opening[p][s]
    <3>1. o \in Readers /\ o # r /\ caller[o].pc \in {"reading", "connect"}
      BY <2>2, <2>3 DEF Opens
    <3>2. caller'[o] = caller[o]
      BY <1>1, <3>1
    <3>3. caller'[opening'[p][s]].pc \in {"reading", "connect"}
      BY <2>1, <3>1, <3>2
    <3> QED BY <2>1, <3>3 DEF Opens
  <2> QED BY <2>1, <2>2, <2>4
<1>5. ASSUME NEW q \in Readers, caller'[q].pc = "waiting" 
      PROVE  Opens(caller[q].of)' /\ caller'[q].of # NoOne
  <2>1. q # r /\ caller'[q] = caller[q] /\ caller[q].of # r
    BY <1>1, <1>5 DEF IdleCaller
  <2>2. Opens(caller[q].of) /\ caller[q].of # NoOne
    BY <1>5, <2>1 DEF PromiseInv, PromisesSettle
  <2> DEFINE o == caller[q].of
  <2>3. o \in Readers /\ o # r /\ caller[o].pc \in {"reading", "connect"}
    BY <1>2, <2>1, <2>2 DEF Opens
  <2>4. caller'[o] = caller[o]
    BY <1>1, <2>3
  <2>5. caller'[caller'[q].of].pc \in {"reading", "connect"}
    BY <2>1, <2>3, <2>4
  <2> QED BY <2>1, <2>2, <2>5 DEF Opens
<1> QED BY <1>4, <1>5

\* A caller that begins: its promise takes a free place.
LEMMA OpensFacts ==
  ASSUME McpTypeOK, NEW r \in Readers, caller[r].pc = "idle",
         caller' = [caller EXCEPT ![r] = [IdleCaller EXCEPT !.pc = "reading"]],
         opening' = [opening EXCEPT ![home[r]][key[r]] = r]
  PROVE  /\ Opens(r)' /\ caller'[r].pc = "reading"
         /\ \A q \in Readers : q # r => caller'[q] = caller[q]
         /\ \A p \in Processes, s \in Servers :
              opening'[p][s] = IF p = home[r] /\ s = key[r] THEN r ELSE opening[p][s]
<1>1. /\ caller \in [Readers -> [pc : CallerPc, of : Readers \cup {NoOne}]]
      /\ opening \in [Processes -> [Servers -> Readers \cup {NoOne}]]
      /\ home[r] \in Processes /\ key[r] \in Servers
  BY DEF McpTypeOK, CredTypeOK
<1>2. [IdleCaller EXCEPT !.pc = "reading"].pc = "reading"
  BY DEF IdleCaller
<1>3. caller'[r].pc = "reading" /\ \A q \in Readers : q # r => caller'[q] = caller[q]
  BY <1>1, <1>2
<1>4. opening' = [opening EXCEPT ![home[r]] = [opening[home[r]] EXCEPT ![key[r]] = r]]
  OBVIOUS
<1>5. \A p \in Processes, s \in Servers :
        opening'[p][s] = IF p = home[r] /\ s = key[r] THEN r ELSE opening[p][s]
  BY <1>1, <1>4
<1> QED BY <1>3, <1>5 DEF Opens

\* The steps of the pools keep the promises.
LEMMA McpPromise ==
  ASSUME McpTypeOK, PromiseInv, McpStep
  PROVE  PromiseInv'
<1>1. /\ \A p \in Processes, s \in Servers : opening[p][s] # NoOne =>
           /\ Opens(opening[p][s]) /\ opening[p][s] \in Readers
           /\ home[opening[p][s]] = p /\ key[opening[p][s]] = s
      /\ \A q \in Readers : caller[q].pc = "waiting" =>
           Opens(caller[q].of) /\ caller[q].of # NoOne /\ caller[q].of \in Readers
      /\ \A q \in Readers : reader[q].pc = "joined" => flight[home[q]].pc # "none"
  BY DEF PromiseInv, PromisesSettle, McpTypeOK
<1>2. /\ caller \in [Readers -> [pc : CallerPc, of : Readers \cup {NoOne}]]
      /\ opening \in [Processes -> [Servers -> Readers \cup {NoOne}]]
      /\ home \in [Readers -> Processes] /\ key \in [Readers -> Servers]
      /\ reader \in [Readers -> [pc : ReaderPc, mat : Material]] /\ NoOne \notin Readers
  BY McpAssumption DEF McpTypeOK, CredTypeOK
<1>3. UNCHANGED <<home, key, flight>>
  BY DEF McpStep, GetClient, TokenRead, Connected, ConnectFails, CloseAll, Cleared, credVars
<1>4. ASSUME \A q \in Readers : reader'[q] = reader[q] \/ reader'[q].pc # "joined",
             \A p \in Processes, s \in Servers : opening'[p][s] # NoOne =>
               /\ Opens(opening[p][s])'
               /\ home[opening'[p][s]] = p /\ key[opening'[p][s]] = s,
             \A q \in Readers : caller'[q].pc = "waiting" =>
               Opens(caller[q].of)' /\ caller'[q].of # NoOne
      PROVE  PromiseInv'
  BY <1>1, <1>3, <1>4 DEF PromiseInv, PromisesSettle
<1>5. ASSUME NEW r \in Readers, NEW ok \in BOOLEAN, Opens(r), Settle(r, ok),
             \A q \in Readers : reader'[q] = reader[q] \/ reader'[q].pc # "joined"
      PROVE  PromiseInv'
  BY <1>3, <1>4, <1>5, SettlePromise
<1>6. ASSUME \A q \in Readers : caller'[q].pc = caller[q].pc \/ (Opens(q) /\ Opens(q)'),
             \A q \in Readers : caller'[q].of = caller[q].of,
             \A p \in Processes, s \in Servers : opening'[p][s] \in {opening[p][s], NoOne},
             \A q \in Readers : reader'[q] = reader[q] \/ reader'[q].pc # "joined"
      PROVE  PromiseInv'
  <2>1. \A q \in Readers : Opens(q) => Opens(q)'
    BY <1>6 DEF Opens
  <2>2. \A p \in Processes, s \in Servers : opening'[p][s] # NoOne =>
               /\ Opens(opening[p][s])'
               /\ home[opening'[p][s]] = p /\ key[opening'[p][s]] = s
    BY <1>1, <1>6, <2>1 DEF Opens
  <2>3. \A q \in Readers : caller'[q].pc = "waiting" => Opens(caller[q].of)' /\ caller'[q].of # NoOne
    BY <1>1, <1>6, <2>1 DEF Opens
  <2> QED BY <1>4, <1>6, <2>2, <2>3
<1>7. ASSUME NEW r \in Readers, GetClient(r) PROVE PromiseInv'
  <2>1. CASE UNCHANGED <<caller, opening, reader>>
    BY <1>6, <2>1
  <2>2. CASE /\ ~OpensAnew(r) /\ UNCHANGED <<opening, reader>>
             /\ caller' = [caller EXCEPT ![r] = [pc |-> "waiting", of |-> Opening(r)]]
    <3>1. caller[r].pc = "idle" /\ Opening(r) # NoOne /\ Opens(Opening(r)) /\ Opening(r) \in Readers
      BY <1>1, <1>2, <1>7, <2>2 DEF GetClient, OpensAnew, Opening
    <3>2. \A q \in Readers : Opens(q) => caller'[q] = caller[q] /\ Opens(q)'
      BY <1>2, <2>2, <3>1 DEF Opens
    <3>3. caller'[r].of = Opening(r) /\ \A q \in Readers : q # r => caller'[q] = caller[q]
      BY <1>2, <2>2
    <3>4. \A p \in Processes, s \in Servers : opening'[p][s] # NoOne =>
               /\ Opens(opening[p][s])'
               /\ home[opening'[p][s]] = p /\ key[opening'[p][s]] = s
      BY <1>1, <2>2, <3>2 DEF Opens
    <3>5. ASSUME NEW q \in Readers, caller'[q].pc = "waiting"
          PROVE  Opens(caller[q].of)' /\ caller'[q].of # NoOne
      <4>1. caller'[q].of \in Readers /\ Opens(caller'[q].of) /\ caller'[q].of # NoOne
        BY <1>1, <3>1, <3>3, <3>5
      <4>2. caller'[caller'[q].of].pc \in {"reading", "connect"}
        BY <3>2, <4>1 DEF Opens
      <4> QED BY <4>1, <4>2 DEF Opens
    <3> QED BY <1>4, <2>2, <3>4, <3>5
  <2>3. CASE /\ OpensAnew(r)
             /\ caller' = [caller EXCEPT ![r] = [IdleCaller EXCEPT !.pc = "reading"]]
             /\ opening' = [opening EXCEPT ![home[r]][key[r]] = r]
             /\ reader' = [reader EXCEPT ![r].pc = "query"]
    <3>1. caller[r].pc = "idle"
      BY <1>7 DEF GetClient
    <3>2. /\ Opens(r)' /\ caller'[r].pc = "reading"
          /\ \A q \in Readers : q # r => caller'[q] = caller[q]
          /\ \A p \in Processes, s \in Servers :
               opening'[p][s] = IF p = home[r] /\ s = key[r] THEN r ELSE opening[p][s]
      BY <2>3, <3>1, OpensFacts
    <3>3. \A q \in Readers : (Opens(q) => caller'[q].pc \in {"reading", "connect"})
                             /\ (reader'[q] = reader[q] \/ reader'[q].pc # "joined")
      BY <1>2, <2>3, <3>2 DEF Opens
    <3>4. ASSUME NEW p \in Processes, NEW s \in Servers, opening'[p][s] # NoOne
          PROVE  /\ caller'[opening'[p][s]].pc \in {"reading", "connect"}
                 /\ home[opening'[p][s]] = p /\ key[opening'[p][s]] = s
      <4>1. CASE p = home[r] /\ s = key[r]
        BY <3>2, <4>1
      <4>2. CASE ~(p = home[r] /\ s = key[r])
        BY <1>1, <3>2, <3>3, <3>4, <4>2
      <4> QED BY <4>1, <4>2
    <3>5. ASSUME NEW q \in Readers, caller'[q].pc = "waiting"
          PROVE  caller'[caller'[q].of].pc \in {"reading", "connect"} /\ caller'[q].of # NoOne
      BY <1>1, <3>2, <3>3, <3>5
    <3> QED BY <1>4, <3>3, <3>4, <3>5 DEF Opens
  <2> QED BY <1>7, <2>1, <2>2, <2>3 DEF GetClient
<1>8. ASSUME NEW r \in Readers, TokenRead(r) PROVE PromiseInv'
  <2>1. Opens(r) /\ reader' = [reader EXCEPT ![r] = IdleReader]
    BY <1>8 DEF TokenRead, Opens
  <2>2. \A q \in Readers : reader'[q] = reader[q] \/ reader'[q].pc # "joined"
    BY <1>2, <2>1 DEF IdleReader
  <2>3. CASE Settle(r, FALSE)
    BY <1>5, <2>1, <2>2, <2>3
  <2>4. CASE caller' = [caller EXCEPT ![r].pc = "connect"] /\ UNCHANGED opening
    <3>1. caller'[r].pc = "connect" /\ \A q \in Readers : caller'[q].of = caller[q].of /\ (q # r => caller'[q] = caller[q])
      BY <1>2, <2>4
    <3>2. \A q \in Readers : caller'[q].pc = caller[q].pc \/ (Opens(q) /\ Opens(q)')
      BY <2>1, <3>1 DEF Opens
    <3> QED BY <1>6, <2>2, <2>4, <3>1, <3>2
  <2> QED BY <1>8, <2>3, <2>4 DEF TokenRead
<1>9. ASSUME NEW r \in Readers, Connected(r) \/ ConnectFails(r) PROVE PromiseInv'
  <2>1. /\ Opens(r) /\ (Settle(r, TRUE) \/ Settle(r, FALSE)) /\ reader' = reader
    BY <1>9 DEF Connected, ConnectFails, Opens, credVars
  <2> QED BY <1>5, <2>1
<1>10. ASSUME NEW p \in Stopping, CloseAll(p) PROVE PromiseInv'
  BY <1>6, <1>10 DEF CloseAll
<1>11. ASSUME NEW p \in Stopping, Cleared(p) PROVE PromiseInv'
  <2>1. caller' = caller /\ reader' = reader /\ opening' = [opening EXCEPT ![p] = [s \in Servers |-> NoOne]]
    BY <1>11 DEF Cleared, credVars
  <2>2. \A o \in Processes, s \in Servers : opening'[o][s] \in {opening[o][s], NoOne}
    BY <1>2, <2>1
  <2> QED BY <1>6, <2>1, <2>2
<1> QED BY <1>7, <1>8, <1>9, <1>10, <1>11 DEF McpStep

-----------------------------------------------------------------------------
(* One client. *)

\* The steps of the pools: while none is closed, an opening has its key for itself, so the
\* client it brings takes the place of none.
LEMMA McpPool ==
  ASSUME McpTypeOK, PoolInv, McpStep
  PROVE  PoolInv'
<1>1. /\ caller \in [Readers -> [pc : CallerPc, of : Readers \cup {NoOne}]]
      /\ opening \in [Processes -> [Servers -> Readers \cup {NoOne}]]
      /\ pool \in [Processes -> [Servers -> 0..MaxClients]]
      /\ home \in [Readers -> Processes] /\ key \in [Readers -> Servers]
      /\ NoOne \notin Readers /\ clients \in Nat /\ live \subseteq 1..clients
  BY SmallTypes, McpAssumption DEF McpTypeOK, CredTypeOK
<1>2. UNCHANGED <<home, key>>
  BY DEF McpStep, GetClient, TokenRead, Connected, ConnectFails, CloseAll, Cleared, credVars
<1>3. ASSUME shut = {}
      PROVE  /\ \A c \in live : \E p \in Processes, s \in Servers : pool[p][s] = c
             /\ \A q \in Readers : Opens(q) => opening[home[q]][key[q]] = q /\ pool[home[q]][key[q]] = 0
  BY <1>3 DEF PoolInv, OneClientPerServer, Opening, Pooled
<1>4. ASSUME shut' = shut, pool' = pool, live' = live,
             \A q \in Readers : Opens(q)' => Opens(q),
             \A q \in Readers : Opens(q) /\ Opens(q)' /\ opening[home[q]][key[q]] = q =>
               opening'[home[q]][key[q]] = q
      PROVE  PoolInv'
  BY <1>2, <1>3, <1>4 DEF PoolInv, OneClientPerServer, Opening, Pooled
\* The other openings when one settles.
<1>5. ASSUME NEW r \in Readers, NEW ok \in BOOLEAN, Opens(r), Settle(r, ok), shut = {}
      PROVE  \A q \in Readers : Opens(q)' =>
               /\ Opens(q) /\ q # r /\ ~(home[q] = home[r] /\ key[q] = key[r])
               /\ opening'[home[q]][key[q]] = q
  <2>1. /\ caller'[r] = IdleCaller
        /\ \A q \in Readers : q # r =>
             caller'[q] = IF caller[q].pc = "waiting" /\ caller[q].of = r THEN IdleCaller ELSE caller[q]
        /\ \A p \in Processes, s \in Servers :
             opening'[p][s] = IF p = home[r] /\ s = key[r] THEN NoOne ELSE opening[p][s]
    BY <1>5, SettleFacts
  <2>2. ASSUME NEW q \in Readers, Opens(q)' PROVE Opens(q) /\ q # r
    BY <2>1, <2>2 DEF Opens, IdleCaller
  <2>3. ASSUME NEW q \in Readers, Opens(q)'
        PROVE ~(home[q] = home[r] /\ key[q] = key[r]) /\ opening'[home[q]][key[q]] = q
    BY <1>1, <1>3, <1>5, <2>1, <2>2, <2>3
  <2> QED BY <2>2, <2>3
<1>6. ASSUME NEW r \in Readers, NEW ok \in BOOLEAN, Opens(r), Settle(r, ok),
             shut' = shut, pool' = pool, live' = live
      PROVE  PoolInv'
  <2>1. SUFFICES ASSUME shut = {}
                 PROVE  PoolInv'
    BY <1>6 DEF PoolInv, OneClientPerServer
  <2>2. \A q \in Readers : Opens(q)' => Opens(q) /\ opening'[home[q]][key[q]] = q
    BY <1>5, <1>6, <2>1
  <2> QED BY <1>4, <1>6, <2>2
<1>7. ASSUME NEW r \in Readers, GetClient(r) PROVE PoolInv'
  <2>1. UNCHANGED <<shut, pool, live>>
    BY <1>7 DEF GetClient
  <2>2. CASE UNCHANGED <<caller, opening>>
    BY <1>4, <2>1, <2>2 DEF Opens
  <2>3. CASE caller' = [caller EXCEPT ![r] = [pc |-> "waiting", of |-> Opening(r)]] /\ UNCHANGED opening
    <3>1. \A q \in Readers : Opens(q)' => Opens(q)
      BY <1>1, <2>3 DEF Opens
    <3> QED BY <1>4, <2>1, <2>3, <3>1
  <2>4. CASE /\ Pooled(r) = 0 /\ OpensAnew(r) /\ caller[r].pc = "idle"
             /\ caller' = [caller EXCEPT ![r] = [IdleCaller EXCEPT !.pc = "reading"]]
             /\ opening' = [opening EXCEPT ![home[r]][key[r]] = r]
    <3>1. /\ \A q \in Readers : q # r => caller'[q] = caller[q]
          /\ \A p \in Processes, s \in Servers :
               opening'[p][s] = IF p = home[r] /\ s = key[r] THEN r ELSE opening[p][s]
      BY <2>4, OpensFacts
    <3>2. SUFFICES ASSUME shut = {}
                   PROVE  PoolInv'
      BY <2>1 DEF PoolInv, OneClientPerServer
    <3>3. opening'[home[r]][key[r]] = r /\ pool[home[r]][key[r]] = 0
      BY <1>1, <2>4, <3>1 DEF Pooled
    <3>4. ASSUME NEW q \in Readers, Opens(q)'
          PROVE  opening'[home[q]][key[q]] = q /\ pool[home[q]][key[q]] = 0
      <4>1. CASE q = r
        BY <3>3, <4>1
      <4>2. CASE q # r
        <5>1. Opens(q)
          BY <3>1, <3>4, <4>2 DEF Opens
        <5>2. opening[home[q]][key[q]] = q /\ pool[home[q]][key[q]] = 0
          BY <1>3, <3>2, <5>1
        <5>3. ~(home[q] = home[r] /\ key[q] = key[r])
          BY <1>1, <2>4, <5>2 DEF OpensAnew, Opening
        <5> QED BY <1>1, <3>1, <5>2, <5>3
      <4> QED BY <4>1, <4>2
    <3> QED BY <1>2, <1>3, <2>1, <3>2, <3>4 DEF PoolInv, OneClientPerServer, Opening, Pooled
  <2> QED BY <1>7, <2>2, <2>3, <2>4 DEF GetClient
<1>8. ASSUME NEW r \in Readers, TokenRead(r) PROVE PoolInv'
  <2>1. Opens(r) /\ UNCHANGED <<shut, pool, live>>
    BY <1>8 DEF TokenRead, Opens
  <2>2. CASE Settle(r, FALSE)
    BY <1>6, <2>1, <2>2
  <2>3. CASE caller' = [caller EXCEPT ![r].pc = "connect"] /\ UNCHANGED opening
    <3>1. \A q \in Readers : Opens(q)' => Opens(q)
      BY <1>1, <2>1, <2>3 DEF Opens
    <3> QED BY <1>4, <2>1, <2>3, <3>1
  <2> QED BY <1>8, <2>2, <2>3 DEF TokenRead
<1>9. ASSUME NEW r \in Readers, Connected(r) PROVE PoolInv'
  <2>1. /\ Opens(r) /\ Settle(r, TRUE) /\ live' = live \cup {clients + 1} /\ shut' = shut
        /\ pool' = [pool EXCEPT ![home[r]][key[r]] = clients + 1]
    BY <1>9 DEF Connected, Opens
  <2>2. \A p \in Processes, s \in Servers :
          pool'[p][s] = IF p = home[r] /\ s = key[r] THEN clients + 1 ELSE pool[p][s]
    <3>1. pool' = [pool EXCEPT ![home[r]] = [pool[home[r]] EXCEPT ![key[r]] = clients + 1]]
      BY <2>1
    <3> QED BY <1>1, <3>1
  <2>3. SUFFICES ASSUME shut = {}
                 PROVE  PoolInv'
    BY <2>1 DEF PoolInv, OneClientPerServer
  <2>4. ASSUME NEW c \in live' PROVE \E p \in Processes, s \in Servers : pool'[p][s] = c
    <3>1. CASE c = clients + 1
      BY <1>1, <2>2, <3>1
    <3>2. CASE c \in live
      <4>1. PICK p \in Processes, s \in Servers : pool[p][s] = c
        BY <1>3, <2>3, <3>2
      <4>2. c # 0 /\ pool[home[r]][key[r]] = 0
        BY <1>1, <1>3, <2>1, <2>3, <3>2
      <4>3. pool'[p][s] = c
        BY <2>2, <4>1, <4>2
      <4> QED BY <4>3
    <3> QED BY <2>1, <2>4, <3>1, <3>2
  <2>5. ASSUME NEW q \in Readers, Opens(q)'
        PROVE  opening'[home[q]][key[q]] = q /\ pool'[home[q]][key[q]] = 0
    <3>1. Opens(q) /\ ~(home[q] = home[r] /\ key[q] = key[r]) /\ opening'[home[q]][key[q]] = q
      BY <1>5, <2>1, <2>3, <2>5
    <3> QED BY <1>1, <1>3, <2>2, <2>3, <3>1
  <2> QED BY <1>2, <2>4, <2>5 DEF PoolInv, OneClientPerServer, Opening, Pooled
<1>10. ASSUME NEW r \in Readers, ConnectFails(r) PROVE PoolInv'
  BY <1>6, <1>10 DEF ConnectFails, Opens
<1>11. ASSUME NEW p \in Stopping, CloseAll(p) \/ Cleared(p) PROVE PoolInv'
  <2>1. shut' # {}
    BY <1>11 DEF CloseAll, Cleared
  <2> QED BY <2>1 DEF PoolInv, OneClientPerServer
<1> QED BY <1>7, <1>8, <1>9, <1>10, <1>11 DEF McpStep

-----------------------------------------------------------------------------
(* The material that is around. *)

\* What was issued stays issued: only what a step writes has to be looked at.
LEMMA MaterialKept ==
  ASSUME CredTypeOK, MaterialInv, issued' \in {issued, issued + 1},
         store' = store \/ Known(store', issued'),
         \A r \in Readers : reader'[r].mat = reader[r].mat \/ Known(reader'[r].mat, issued'),
         \A p \in Processes : flight'[p] = flight[p] \/ flight'[p].pc = "none" \/ Refreshable(p)',
         \A w \in Writers : \/ writer'[w] = writer[w]
                            \/ /\ Known(writer'[w].mat, issued')
                               /\ writer'[w].pc = "save" => writer'[w].mat.gen # 0
  PROVE  MaterialInv'
<1>1. /\ issued \in Nat /\ store \in Material /\ MaxTokens \in Nat
      /\ \A r \in Readers : reader[r].mat \in Material
      /\ \A w \in Writers : writer[w].mat \in Material
  BY SmallTypes DEF CredTypeOK
<1>2. ASSUME NEW m \in Material, Issued(m) PROVE Known(m, issued')
  <2>1. m.refresh \in Nat
    BY <1>1 DEF Material
  <2> QED BY <1>1, <1>2, <2>1 DEF Issued, Known
<1>3. Issued(store)'
  BY <1>1, <1>2 DEF MaterialInv, Issued
<1>4. ASSUME NEW r \in Readers PROVE Issued(reader[r].mat)'
  BY <1>1, <1>2 DEF MaterialInv, Issued
<1>5. ASSUME NEW p \in Processes, flight'[p].pc # "none" PROVE Refreshable(p)'
  <2>1. CASE flight'[p] = flight[p]
    <3>1. /\ flight[p].pc # "none" /\ flight[p].base \in Material /\ flight[p].new \in Material
      BY <1>5, <2>1, FlightFacts
    <3>2. Refreshable(p)
      BY <3>1 DEF MaterialInv
    <3> QED BY <1>2, <2>1, <3>1, <3>2 DEF Refreshable, Issued
  <2> QED BY <1>5, <2>1
<1>6. ASSUME NEW w \in Writers
      PROVE  Issued(writer[w].mat)' /\ (writer'[w].pc = "save" => writer'[w].mat.gen # 0)
  BY <1>1, <1>2 DEF MaterialInv, Issued
<1> QED BY <1>3, <1>4, <1>5, <1>6 DEF MaterialInv

\* The end of a refresh.
LEMMA EndFlightMaterial ==
  ASSUME CredTypeOK, NEW p \in Processes, NEW pc, NEW mat, EndFlight(p, pc, mat)
  PROVE  /\ \A q \in Processes : flight'[q] = IF q = p THEN NoFlight ELSE flight[q]
         /\ \A r \in Readers : reader'[r].mat \in {reader[r].mat, mat}
  BY DEF EndFlight, CredTypeOK

\* The steps of the credential.
LEMMA CredMaterial ==
  ASSUME CredTypeOK, MaterialInv, CredStep
  PROVE  MaterialInv'
<1>1. /\ reader \in [Readers -> [pc : ReaderPc, mat : Material]]
      /\ flight \in [Processes -> Flights] /\ home \in [Readers -> Processes]
      /\ writer \in [Writers -> [pc : WriterPc, mat : Material]]
      /\ issued \in Nat /\ store \in Material /\ MaxTokens \in Nat
      /\ NoFlight.pc = "none" /\ IdleReader.mat = NoMaterial /\ IdleReader.pc = "idle"
  BY SmallTypes DEF CredTypeOK
<1>2. Known(NoMaterial, issued) /\ Known(NoMaterial, issued + 1)
  BY <1>1 DEF Known, NoMaterial
<1>3. Known(store, issued) /\ \A r \in Readers : Known(reader[r].mat, issued)
  BY DEF MaterialInv, Issued
<1>4. ASSUME UNCHANGED <<store, issued, reader, flight, writer>> PROVE MaterialInv'
  BY <1>4, MaterialKept
<1>5. CASE Expire \/ GetSession \/ CreateSession
  BY <1>4, <1>5 DEF Expire, GetSession, CreateSession
<1>6. ASSUME NEW r \in Readers, QueryMaterial(r) PROVE MaterialInv'
  <2>1. /\ reader'[r].mat = store /\ \A q \in Readers : q # r => reader'[q] = reader[q]
        /\ UNCHANGED <<store, issued, flight, writer>>
    BY <1>1, <1>6 DEF QueryMaterial
  <2> QED BY <1>3, <2>1, MaterialKept
<1>7. ASSUME NEW r \in Readers, ResumeRead(r) PROVE MaterialInv'
  <2> DEFINE mat == reader[r].mat
             p == home[r]
             begun == [NoFlight EXCEPT !.pc = "exchange", !.base = mat]
  <2>1. UNCHANGED <<store, issued, writer>> /\ p \in Processes /\ mat \in Material
    BY <1>1, <1>7 DEF ResumeRead
  <2>2. /\ [IdleReader EXCEPT !.pc = "joined"].mat = NoMaterial
        /\ \A pc : [reader[r] EXCEPT !.pc = pc].mat = mat
    BY <1>1 DEF IdleReader
  <2>3. \A q \in Readers : reader'[q].mat = reader[q].mat \/ Known(reader'[q].mat, issued')
    <3>1. \A q \in Readers : q # r => reader'[q] = reader[q]
      BY <1>1, <1>7 DEF ResumeRead
    <3>2. reader'[r].mat \in {mat, NoMaterial}
      <4>1. CASE ~ShouldRefresh(mat)
        <5>1. PICK pc \in {"failed", "done"} : reader' = [reader EXCEPT ![r] = [reader[r] EXCEPT !.pc = pc]]
          BY <1>7, <4>1 DEF ResumeRead
        <5> QED BY <1>1, <2>2, <5>1
      <4>2. CASE ShouldRefresh(mat)
        <5>1. reader' = [reader EXCEPT ![r] = [IdleReader EXCEPT !.pc = "joined"]]
          BY <1>7, <4>2 DEF ResumeRead
        <5> QED BY <1>1, <2>2, <5>1
      <4> QED BY <4>1, <4>2
    <3> QED BY <1>2, <2>1, <3>1, <3>2
  <2>4. begun.pc = "exchange" /\ begun.base = mat
    BY DEF NoFlight
  <2>5. flight' = flight \/ (ShouldRefresh(mat) /\ flight' = [flight EXCEPT ![p] = begun])
    BY <1>7 DEF ResumeRead
  <2> HIDE DEF begun
  <2>6. ASSUME NEW q \in Processes, flight'[q] # flight[q] PROVE Refreshable(q)'
    <3>1. ShouldRefresh(mat) /\ flight'[q] = begun
      BY <1>1, <2>1, <2>5, <2>6
    <3>2. Known(mat, issued') /\ mat.gen # 0 /\ ~mat.pushed
      BY <1>3, <2>1, <3>1 DEF ShouldRefresh, Known
    <3> QED BY <2>4, <3>1, <3>2 DEF Refreshable, Issued
  <2> QED BY <2>1, <2>3, <2>6, MaterialKept
<1>8. ASSUME NEW p \in Processes, Exchange(p) PROVE MaterialInv'
  <2>1. PICK f \in Flights :
           /\ flight' = [flight EXCEPT ![p] = f]
           /\ f.pc = "save" /\ f.base = flight[p].base /\ f.new \in Material
           /\ f.new.gen = issued + 1 /\ f.new.origin = flight[p].base.origin
           /\ f.new.refresh \in {flight[p].base.refresh, issued + 1}
    BY <1>8, ExchangeFacts
  <2>2. /\ issued' = issued + 1 /\ UNCHANGED <<store, reader, writer>> /\ flight[p].pc # "none"
    BY <1>8 DEF Exchange, ProviderTakes
  <2>3. Refreshable(p) /\ flight[p].base.refresh \in Nat
    BY <1>1, <2>2, FlightFacts DEF MaterialInv
  <2>4. Known(f.base, issued + 1) /\ Known(f.new, issued + 1) /\ f.new.gen # 0
    BY <1>1, <2>1, <2>3 DEF Refreshable, Issued, Known
  <2>5. Refreshable(p)'
    BY <1>1, <2>1, <2>2, <2>3, <2>4 DEF Refreshable, Issued
  <2>6. \A q \in Processes : q # p => flight'[q] = flight[q]
    BY <1>1, <2>1
  <2>7. \A q \in Processes : flight'[q] = flight[q] \/ Refreshable(q)'
    BY <2>5, <2>6
  <2> QED BY <2>2, <2>7, MaterialKept
<1>9. ASSUME NEW p \in Processes, NEW pc, NEW mat, EndFlight(p, pc, mat), Known(mat, issued'),
             store' \in {store, mat}, issued' \in {issued, issued + 1}, UNCHANGED writer
      PROVE  MaterialInv'
  <2>0. Known(store, issued')
    BY <1>1, <1>3, <1>9 DEF Known, Material
  <2>1. \A q \in Processes : flight'[q] = flight[q] \/ flight'[q].pc = "none"
    BY <1>1, <1>9, EndFlightMaterial
  <2>2. \A r \in Readers : reader'[r].mat = reader[r].mat \/ Known(reader'[r].mat, issued')
    BY <1>9, EndFlightMaterial
  <2> QED BY <1>9, <2>0, <2>1, <2>2, MaterialKept
<1>18. ASSUME NEW p \in Processes, AnswerLost(p) PROVE MaterialInv'
  <2>1. issued' = issued + 1 /\ flight[p].pc = "exchange"
    BY <1>18 DEF AnswerLost, ProviderTakes
  <2>2. Known(flight[p].base, issued) /\ flight[p].base.refresh \in 1..MaxTokens
    BY <2>1, FlightFacts DEF MaterialInv, Refreshable, Issued
  <2>3. Known(flight[p].base, issued')
    BY <1>1, <2>1, <2>2 DEF Known
  <2> QED BY <1>9, <1>18, <2>1, <2>3 DEF AnswerLost
<1>10. ASSUME NEW p \in Processes, RefreshFails(p) \/ SaveRefreshed(p) \/ SaveFails(p) PROVE MaterialInv'
  <2>1. Refreshable(p)
    BY <1>10 DEF RefreshFails, SaveRefreshed, SaveFails, MaterialInv
  <2>2. CASE RefreshFails(p)
    BY <1>9, <2>1, <2>2 DEF RefreshFails, Refreshable, Issued
  <2>3. CASE SaveRefreshed(p)
    BY <1>9, <2>1, <2>3 DEF SaveRefreshed, Refreshable, Issued
  <2>4. CASE SaveFails(p)
    BY <1>2, <1>9, <2>4 DEF SaveFails
  <2> QED BY <1>10, <2>2, <2>3, <2>4
<1>11. ASSUME NEW w \in Writers, NEW pc \in WriterPc, NEW mat \in Material, WriterAt(w, pc, mat),
              Known(mat, issued'), pc = "save" => mat.gen # 0,
              issued' \in {issued, issued + 1}, store' = store \/ Known(store', issued'),
              UNCHANGED <<reader, flight>>
       PROVE  MaterialInv'
  <2>1. writer'[w].pc = pc /\ writer'[w].mat = mat /\ \A v \in Writers : v # w => writer'[v] = writer[v]
    BY <1>1, <1>11 DEF WriterAt
  <2> QED BY <1>11, <2>1, MaterialKept
<1>12. {"idle", "exchange", "merge", "save", "mark", "draft", "delete"} \subseteq WriterPc
       /\ NoMaterial \in Material /\ \A g \in 0..MaxTokens : Consented(g) \in Material
  BY SmallTypes DEF WriterPc
<1>13. ASSUME NEW w \in Writers, BeginConsent(w) \/ BeginPush(w) \/ BeginDisconnect(w) PROVE MaterialInv'
  BY <1>2, <1>11, <1>12, <1>13 DEF BeginConsent, BeginPush, BeginDisconnect, Begin
<1>14. ASSUME NEW w \in Writers, CompleteCallback(w) PROVE MaterialInv'
  <2>1. issued < MaxTokens /\ issued' = issued + 1 /\ WriterAt(w, "save", Consented(issued + 1))
        /\ UNCHANGED <<store, reader, flight>>
    BY <1>14 DEF CompleteCallback
  <2>2. Consented(issued + 1) \in Material /\ Known(Consented(issued + 1), issued + 1)
        /\ Consented(issued + 1).gen # 0
    BY <1>1, <1>12, <2>1 DEF Consented, Known
  <2> QED BY <1>11, <1>12, <2>1, <2>2
<1>15. ASSUME NEW w \in Writers, MergePush(w) PROVE MaterialInv'
  <2>1. issued < MaxTokens /\ issued' = issued + 1 /\ UNCHANGED <<store, reader, flight>>
    BY <1>15 DEF MergePush
  <2>2. PICK sent \in {0, issued + 1} :
          WriterAt(w, "save", [gen |-> issued', origin |-> issued', pushed |-> TRUE,
                               refresh |-> IF sent = 0 THEN Preserved(store) ELSE sent])
    BY <1>15, <2>1 DEF MergePush
  <2> DEFINE kept == IF sent = 0 THEN Preserved(store) ELSE sent
             m == [gen |-> issued', origin |-> issued', pushed |-> TRUE, refresh |-> kept]
  <2>3. kept \in 0..MaxTokens /\ kept <= issued + 1
    BY <1>1, <1>3, <2>1, <2>2 DEF Material, Known, Preserved
  <2>4. m \in Material /\ Known(m, issued') /\ m.gen # 0
    BY <1>1, <2>1, <2>3 DEF Material, Known
  <2>5. WriterAt(w, "save", m)
    BY <2>2
  <2> HIDE DEF m
  <2> QED BY <1>11, <1>12, <2>1, <2>4, <2>5
<1>16. ASSUME NEW w \in Writers, SaveMaterial(w) PROVE MaterialInv'
  <2>1. Known(writer[w].mat, issued)
    BY DEF MaterialInv, Issued
  <2> QED BY <1>2, <1>11, <1>12, <1>16, <2>1 DEF SaveMaterial
<1>17. ASSUME NEW w \in Writers, MarkConnected(w) \/ SetDraft(w) \/ DeleteMaterial(w) \/ WriteFails(w)
       PROVE  MaterialInv'
  BY <1>2, <1>11, <1>12, <1>17 DEF MarkConnected, SetDraft, DeleteMaterial, WriteFails, Deleted
<1> QED
  BY <1>5, <1>6, <1>7, <1>8, <1>10, <1>13, <1>14, <1>15, <1>16, <1>17, <1>18 DEF CredStep

-----------------------------------------------------------------------------
(* The token in the store. *)

\* A step that takes nothing back and brings no token.
LEMMA TokenKept ==
  ASSUME Token, UNCHANGED <<store, flight>>, accepted \subseteq accepted',
         \A w \in Writers : Saving(w)' => Saving(w) /\ writer'[w].mat = writer[w].mat
  PROVE  Token'
<1>1. FlightInv'
  BY DEF Token, FlightInv
<1>2. FreshInv'
  BY DEF Token, FreshInv
<1> QED BY <1>1, <1>2 DEF Token

\* Nothing goes on in another process, so what ends was all there was.
LEMMA EndFlightToken ==
  ASSUME CredTypeOK, MaterialInv, Token, NEW p \in Processes, NEW pc, NEW mat,
         flight[p].pc # "none", EndFlight(p, pc, mat), UNCHANGED <<accepted, writer>>,
         \/ store' = store /\ flight[p].pc = "exchange"
         \/ store' = flight[p].new /\ flight[p].pc = "save"
  PROVE  Token'
<1>1. \A q \in Processes : flight'[q].pc = "none"
  <2>1. \A q \in Processes : flight'[q] = IF q = p THEN NoFlight ELSE flight[q]
    BY EndFlightMaterial
  <2> QED BY <2>1 DEF Token, FlightInv, NoFlight
<1>2. store'.refresh = 0 \/ store'.refresh \in accepted
  BY DEF Token, FlightInv
<1>3. FlightInv'
  BY <1>1 DEF FlightInv
<1>4. \A w \in Writers : Saving(w) /\ store'.refresh = writer[w].mat.refresh =>
        store'.pushed /\ writer[w].mat.pushed
  BY DEF Token, FreshInv
<1>5. FreshInv'
  BY <1>1, <1>4 DEF Token, FreshInv, Saving
<1> QED BY <1>2, <1>3, <1>5 DEF Token

\* A refresh that begins and is not booked: alone, with the material of the store.
LEMMA ResumeToken ==
  ASSUME CredTypeOK, Token, NEW r \in Readers, ResumeRead(r), ~stale'
  PROVE  Token'
<1> DEFINE mat == reader[r].mat
           p == home[r]
           begun == [NoFlight EXCEPT !.pc = "exchange", !.base = mat]
<1>1. /\ flight \in [Processes -> Flights] /\ p \in Processes
      /\ UNCHANGED <<store, accepted, writer>>
  BY DEF CredTypeOK, ResumeRead
<1>2. CASE UNCHANGED flight
  BY <1>1, <1>2, TokenKept DEF Saving
<1>3. CASE /\ ShouldRefresh(mat) /\ NotInFlight(p)
           /\ flight' = [flight EXCEPT ![p] = begun]
           /\ stale' = (stale \/ mat # store \/ OtherFlight(p))
  <2>1. mat = store /\ \A q \in Processes : flight[q].pc = "none"
    BY <1>3 DEF OtherFlight, NotInFlight
  <2>2. begun.pc = "exchange" /\ begun.base = store
    BY <2>1 DEF NoFlight
  <2> HIDE DEF begun
  <2>3. ~store.pushed /\ store.refresh # 0 /\ store.refresh \in accepted
    BY <1>3, <2>1 DEF Token, ShouldRefresh
  <2>4. flight'[p] = begun /\ \A q \in Processes : q # p => flight'[q].pc = "none"
    BY <1>1, <1>3, <2>1
  <2>5. FlightInv'
    BY <1>1, <2>2, <2>3, <2>4 DEF FlightInv
  <2>6. ASSUME NEW w \in Writers, Saving(w)
        PROVE  /\ writer[w].mat.refresh \in accepted /\ store.refresh # writer[w].mat.refresh
               /\ \A v \in Writers \ {w} : Saving(v) /\ writer[v].mat.refresh = writer[w].mat.refresh =>
                    writer[v].mat.pushed /\ writer[w].mat.pushed
    BY <2>3, <2>6 DEF Token, FreshInv
  <2>7. \A q \in Processes : flight'[q].pc # "save" /\ (flight'[q].pc # "none" => flight'[q].base = store)
    BY <2>2, <2>4
  <2>8. FreshInv'
    BY <1>1, <2>6, <2>7 DEF FreshInv, Saving
  <2> QED BY <1>1, <2>3, <2>5, <2>8 DEF Token
<1> QED BY <1>2, <1>3 DEF ResumeRead

\* An exchange: the token handed in may go, and nothing but the refresh itself depends on it.
LEMMA ExchangeToken ==
  ASSUME CredTypeOK, MaterialInv, Token, NEW p \in Processes, Exchange(p)
  PROVE  Token'
<1> DEFINE old == flight[p].base.refresh
           new == issued + 1
<1>1. PICK f \in Flights :
         /\ flight' = [flight EXCEPT ![p] = f]
         /\ f.pc = "save" /\ f.base = flight[p].base
         /\ \/ f.new.refresh = old /\ accepted' = accepted
            \/ f.new.refresh = new /\ accepted' = (accepted \ {old}) \cup {new}
  BY ExchangeFacts
<1>9. store.refresh # new
  BY SmallTypes DEF CredTypeOK, MaterialInv, Issued, Known, Material
<1>2. /\ UNCHANGED <<store, writer>> /\ old \in accepted /\ flight[p].pc = "exchange"
      /\ issued \in Nat /\ accepted \subseteq 1..issued /\ flight \in [Processes -> Flights]
  BY SmallTypes DEF Exchange, ProviderTakes, CredTypeOK
<1>3. flight'[p] = f /\ \A q \in Processes : q # p => flight'[q] = flight[q] /\ flight[q].pc = "none"
  BY <1>1, <1>2 DEF Token, FlightInv
<1>4. f.new.refresh \in accepted' /\ \A g \in accepted : g # old => g \in accepted'
  BY <1>1, <1>2
<1>5. FlightInv'
  <2>1. store.pushed => store.refresh # old /\ store.refresh # f.new.refresh
    BY <1>1, <1>2, <1>9 DEF Token, FlightInv
  <2> QED BY <1>1, <1>2, <1>3, <1>4, <2>1 DEF FlightInv
<1>6. ASSUME NEW w \in Writers, Saving(w)
      PROVE  /\ writer[w].mat.refresh \in accepted' /\ writer[w].mat.refresh # old
             /\ f.new.refresh # writer[w].mat.refresh
  <2>1. writer[w].mat.refresh \in accepted /\ writer[w].mat.refresh # old
    BY <1>2, <1>6 DEF Token, FreshInv
  <2>2. writer[w].mat.refresh # new
    BY <1>2, <2>1
  <2> QED BY <1>1, <1>4, <2>1, <2>2
<1>7. FreshInv'
  <2>1. ASSUME NEW w \in Writers, Saving(w)
        PROVE  /\ store.refresh = writer[w].mat.refresh => store.pushed /\ writer[w].mat.pushed
               /\ \A v \in Writers \ {w} : Saving(v) /\ writer[v].mat.refresh = writer[w].mat.refresh =>
                    writer[v].mat.pushed /\ writer[w].mat.pushed
    BY <2>1 DEF Token, FreshInv
  <2>2. \A q \in Processes : flight'[q].pc # "none" =>
          flight'[q].base = flight[p].base /\ flight'[q].new = f.new
    BY <1>1, <1>3
  <2> QED BY <1>2, <1>6, <2>1, <2>2 DEF FreshInv, Saving
<1>8. \/ store.refresh = 0 \/ store.refresh \in accepted'
      \/ flight'[p].pc = "save" /\ flight'[p].base = store
  BY <1>1, <1>2, <1>3, <1>4 DEF Token, FlightInv
<1> QED BY <1>2, <1>5, <1>7, <1>8 DEF Token

\* What is known was issued before.
LEMMA NothingNew ==
  ASSUME CredTypeOK, MaterialInv
  PROVE  /\ store.refresh # issued + 1 /\ \A w \in Writers : writer[w].mat.refresh # issued + 1
         /\ \A p \in Processes : flight[p].pc # "none" =>
              /\ flight[p].base.refresh # issued + 1
              /\ flight[p].pc = "save" => flight[p].new.refresh # issued + 1
<1>1. issued \in Nat /\ store \in Material /\ writer \in [Writers -> [pc : WriterPc, mat : Material]]
  BY SmallTypes DEF CredTypeOK
<1>2. ASSUME NEW m \in Material, Known(m, issued) PROVE m.refresh # issued + 1
  <2>1. m.refresh \in Nat
    BY CredentialAssumption DEF Material
  <2> QED BY <1>1, <1>2, <2>1 DEF Known
<1>3. ASSUME NEW p \in Processes, flight[p].pc # "none"
      PROVE  /\ flight[p].base.refresh # issued + 1
             /\ flight[p].pc = "save" => flight[p].new.refresh # issued + 1
  <2>1. Refreshable(p) /\ flight[p].base \in Material /\ flight[p].new \in Material
    BY <1>3, FlightFacts DEF MaterialInv
  <2> QED BY <1>2, <2>1 DEF Refreshable, Issued
<1> QED BY <1>1, <1>2, <1>3 DEF MaterialInv, Issued

\* A consent or a push has its material: without a refresh token, with a new one, or with the
\* one a push had brought.
LEMMA BringToken ==
  ASSUME CredTypeOK, MaterialInv, Token, NEW w \in Writers, NEW mat \in Material,
         WriterAt(w, "save", mat), UNCHANGED <<store, flight>>, accepted \subseteq accepted',
         \/ mat.refresh = 0
         \/ mat.refresh = issued + 1 /\ mat.refresh \in accepted'
         \/ mat.refresh = store.refresh /\ store.pushed /\ mat.pushed
  PROVE  Token'
<1>1. /\ writer'[w].pc = "save" /\ writer'[w].mat = mat
      /\ \A v \in Writers : v # w => writer'[v] = writer[v]
  BY DEF WriterAt, CredTypeOK
<1>2. \A v \in Writers : v # w => (Saving(v)' <=> Saving(v))
  BY <1>1 DEF Saving
<1>3. FlightInv'
  BY DEF Token, FlightInv
\* The token it brings.
<1>4. ASSUME mat.refresh # 0
      PROVE  /\ mat.refresh \in accepted'
             /\ store.refresh = mat.refresh => store.pushed /\ mat.pushed
             /\ \A p \in Processes :
                  /\ flight[p].pc # "none" => flight[p].base.refresh # mat.refresh
                  /\ flight[p].pc = "save" => flight[p].new.refresh # mat.refresh
             /\ \A v \in Writers \ {w} : Saving(v) /\ writer[v].mat.refresh = mat.refresh =>
                  writer[v].mat.pushed /\ mat.pushed
  <2>1. CASE mat.refresh = issued + 1 /\ mat.refresh \in accepted'
    BY <2>1, NothingNew
  <2>2. CASE mat.refresh = store.refresh /\ store.pushed /\ mat.pushed
    <3>1. store.refresh \in accepted
      <4>1. ASSUME NEW p \in Processes, flight[p].pc = "save", flight[p].base = store PROVE FALSE
        BY <2>2, <4>1 DEF MaterialInv, Refreshable
      <4> QED BY <1>4, <2>2, <4>1 DEF Token
    <3>2. \A p \in Processes :
            /\ flight[p].pc # "none" => flight[p].base.refresh # store.refresh
            /\ flight[p].pc = "save" => flight[p].new.refresh # store.refresh
      BY <2>2 DEF Token, FlightInv
    <3>3. \A v \in Writers : Saving(v) /\ writer[v].mat.refresh = store.refresh => writer[v].mat.pushed
      BY DEF Token, FreshInv
    <3> QED BY <2>2, <3>1, <3>2, <3>3
  <2> QED BY <1>4, <2>1, <2>2
<1>5. ASSUME NEW v \in Writers, Saving(v)'
      PROVE  /\ writer'[v].mat.refresh \in accepted'
             /\ store.refresh = writer'[v].mat.refresh => store.pushed /\ writer'[v].mat.pushed
             /\ \A p \in Processes :
                  /\ flight[p].pc # "none" => flight[p].base.refresh # writer'[v].mat.refresh
                  /\ flight[p].pc = "save" => flight[p].new.refresh # writer'[v].mat.refresh
             /\ \A u \in Writers \ {v} : Saving(u)' /\ writer'[u].mat.refresh = writer'[v].mat.refresh =>
                  writer'[u].mat.pushed /\ writer'[v].mat.pushed
  <2>1. CASE v = w
    <3>1. mat.refresh # 0
      BY <1>1, <1>5, <2>1 DEF Saving
    <3>2. \A u \in Writers \ {v} : Saving(u)' => Saving(u) /\ writer'[u] = writer[u]
      BY <1>1, <1>2, <2>1
    <3> QED BY <1>1, <1>4, <2>1, <3>1, <3>2
  <2>2. CASE v # w
    <3>1. Saving(v) /\ writer'[v] = writer[v]
      BY <1>1, <1>2, <1>5, <2>2
    <3>2. \A u \in Writers \ {v} : Saving(u)' =>
            \/ Saving(u) /\ writer'[u] = writer[u]
            \/ u = w /\ mat.refresh # 0
      BY <1>1, <1>2 DEF Saving
    <3> QED BY <1>1, <1>4, <2>2, <3>1, <3>2 DEF Token, FreshInv
  <2> QED BY <2>1, <2>2
<1>6. FreshInv'
  BY <1>5 DEF FreshInv
<1> QED BY <1>3, <1>6 DEF Token

\* Material written over the store, the consent's or the push's, or the row deleted.
LEMMA WriteToken ==
  ASSUME CredTypeOK, Token, NEW w \in Writers, UNCHANGED <<flight, accepted>>,
         \/ store' = NoMaterial
         \/ store' = writer[w].mat /\ writer[w].pc = "save",
         NEW pc \in {"mark", "idle"}, WriterAt(w, pc, NoMaterial)
  PROVE  Token'
<1>1. /\ writer \in [Writers -> [pc : WriterPc, mat : Material]]
      /\ accepted \subseteq 1..issued /\ 0 \notin accepted
  BY DEF CredTypeOK
<1>2. /\ writer'[w].pc = pc /\ \A v \in Writers : v # w => writer'[v] = writer[v]
  BY <1>1 DEF WriterAt
<1>3. \A v \in Writers : Saving(v)' => v # w /\ Saving(v) /\ writer'[v] = writer[v]
  BY <1>2 DEF Saving
<1>4. \/ store'.refresh = 0
      \/ store' = writer[w].mat /\ Saving(w)
  BY DEF NoMaterial, Saving
<1>5. store'.refresh = 0 \/ store'.refresh \in accepted
  BY <1>4 DEF Token, FreshInv
<1>6. ASSUME NEW p \in Processes, flight[p].pc # "none"
      PROVE  /\ store'.refresh # flight[p].base.refresh
             /\ flight[p].pc = "save" => store'.refresh # flight[p].new.refresh
  <2>1. flight[p].base.refresh # 0
    BY <1>6, FlightFacts
  <2>2. flight[p].pc = "save" => flight[p].new.refresh # 0
    BY <1>1 DEF Token, FlightInv
  <2> QED BY <1>4, <1>6, <2>1, <2>2 DEF Token, FreshInv
<1>7. FlightInv'
  BY <1>6 DEF Token, FlightInv
<1>8. \A v \in Writers : Saving(v) /\ v # w /\ store'.refresh = writer[v].mat.refresh =>
        store'.pushed /\ writer[v].mat.pushed
  BY <1>4 DEF Token, FreshInv, Saving
<1>9. FreshInv'
  BY <1>3, <1>8 DEF Token, FreshInv
<1> QED BY <1>5, <1>7, <1>9 DEF Token

\* The steps of the credential.
LEMMA CredToken ==
  ASSUME CredTypeOK, MaterialInv, TokenInv, CredStep
  PROVE  TokenInv'
<1>1. stale => stale'
  BY DEF CredStep, Expire, GetSession, CreateSession, QueryMaterial, ResumeRead, Exchange,
         RefreshFails, AnswerLost, SaveRefreshed, SaveFails, BeginConsent, BeginPush, BeginDisconnect, Begin,
         CompleteCallback, MergePush, SaveMaterial, MarkConnected, SetDraft, DeleteMaterial, WriteFails
<1>2. SUFFICES ASSUME Token, ~stale'
               PROVE  Token'
  BY <1>1 DEF TokenInv
<1>3. ASSUME UNCHANGED <<store, flight, accepted, writer>> PROVE Token'
  BY <1>2, <1>3, TokenKept DEF Saving
<1>4. ASSUME NEW r \in Readers, QueryMaterial(r) \/ ResumeRead(r) PROVE Token'
  BY <1>2, <1>3, <1>4, ResumeToken DEF QueryMaterial
<1>5. ASSUME NEW p \in Processes, Exchange(p) PROVE Token'
  BY <1>2, <1>5, ExchangeToken
<1>6. ASSUME NEW p \in Processes, RefreshFails(p) \/ SaveRefreshed(p) PROVE Token'
  BY <1>2, <1>6, EndFlightToken DEF RefreshFails, SaveRefreshed
<1>7. ASSUME NEW p \in Processes PROVE ~SaveFails(p)
  BY <1>2 DEF SaveFails
<1>8. CASE Expire \/ GetSession \/ CreateSession
  BY <1>3, <1>8 DEF Expire, GetSession, CreateSession
<1>9. ASSUME NEW p \in Processes, AnswerLost(p) PROVE Token'
  <2>1. accepted' = accepted /\ flight[p].pc = "exchange"
    BY <1>2, <1>9 DEF AnswerLost, ProviderTakes
  <2> QED BY <1>2, <1>9, <2>1, EndFlightToken DEF AnswerLost
<1>10. ASSUME NEW w \in Writers, CompleteCallback(w) PROVE Token'
  <2>1. /\ issued < MaxTokens /\ accepted' = accepted \cup {issued + 1} /\ UNCHANGED <<store, flight>>
        /\ WriterAt(w, "save", Consented(issued + 1))
    BY <1>10 DEF CompleteCallback
  <2>2. Consented(issued + 1) \in Material /\ Consented(issued + 1).refresh = issued + 1
    BY <2>1, SmallTypes DEF CredTypeOK, Consented
  <2> QED BY <1>2, <2>1, <2>2, BringToken
<1>11. ASSUME NEW w \in Writers, MergePush(w) PROVE Token'
  <2>1. issued < MaxTokens /\ issued' = issued + 1 /\ UNCHANGED <<store, flight>>
    BY <1>11 DEF MergePush
  <2>2. PICK sent \in {0, issued'} :
          /\ accepted' = IF sent = 0 THEN accepted ELSE accepted \cup {sent}
          /\ WriterAt(w, "save", [gen |-> issued', origin |-> issued', pushed |-> TRUE,
                                  refresh |-> IF sent = 0 THEN Preserved(store) ELSE sent])
    BY <1>11 DEF MergePush
  <2> DEFINE kept == IF sent = 0 THEN Preserved(store) ELSE sent
             m == [gen |-> issued', origin |-> issued', pushed |-> TRUE, refresh |-> kept]
  <2>3. \/ kept = 0
        \/ kept = issued + 1 /\ kept \in accepted'
        \/ kept = store.refresh /\ store.pushed
    <3>1. CASE sent = 0
      BY <3>1 DEF Preserved
    <3>2. CASE sent # 0
      BY <2>1, <2>2, <3>2
    <3> QED BY <3>1, <3>2
  <2>4. m \in Material
    <3>1. issued + 1 \in 0..MaxTokens /\ store.refresh \in 0..MaxTokens /\ 0 \in 0..MaxTokens
      BY <2>1, SmallTypes DEF CredTypeOK, Material
    <3>2. kept \in 0..MaxTokens
      BY <2>3, <3>1
    <3> HIDE DEF kept
    <3> QED BY <2>1, <3>1, <3>2 DEF Material
  <2>5. WriterAt(w, "save", m) /\ accepted \subseteq accepted' /\ m.refresh = kept /\ m.pushed
    BY <2>2
  <2> HIDE DEF m, kept
  <2> QED BY <1>2, <2>1, <2>3, <2>4, <2>5, BringToken
<1>12. ASSUME NEW w \in Writers, SaveMaterial(w) \/ DeleteMaterial(w) PROVE Token'
  BY <1>2, <1>12, WriteToken DEF SaveMaterial, DeleteMaterial, Deleted
<1>13. ASSUME NEW w \in Writers, NEW pc \in WriterPc, pc # "save", WriterAt(w, pc, NoMaterial),
              UNCHANGED <<store, flight, accepted>>
       PROVE  Token'
  <2>1. writer'[w].pc = pc /\ \A v \in Writers : v # w => writer'[v] = writer[v]
    BY <1>13 DEF WriterAt, CredTypeOK
  <2>2. \A v \in Writers : Saving(v)' => Saving(v) /\ writer'[v].mat = writer[v].mat
    BY <1>13, <2>1 DEF Saving
  <2> QED BY <1>2, <1>13, <2>2, TokenKept
<1>14. {"idle", "exchange", "merge", "draft", "delete"} \subseteq WriterPc
  BY DEF WriterPc
<1>15. ASSUME NEW w \in Writers,
              \/ BeginConsent(w) \/ BeginPush(w) \/ BeginDisconnect(w)
              \/ MarkConnected(w) \/ SetDraft(w)
       PROVE  Token'
  BY <1>13, <1>14, <1>15
     DEF BeginConsent, BeginPush, BeginDisconnect, Begin, MarkConnected, SetDraft
<1>16. ASSUME NEW w \in Writers, WriteFails(w) PROVE Token'
  <2>1. WriterAt(w, "idle", NoMaterial) /\ UNCHANGED <<flight, accepted>>
        /\ (store' = store \/ store' = NoMaterial)
    BY <1>16 DEF WriteFails, Deleted
  <2> QED BY <1>2, <1>13, <1>14, <2>1, WriteToken
<1> QED
  BY <1>4, <1>5, <1>6, <1>7, <1>8, <1>9, <1>10, <1>11, <1>12, <1>15, <1>16 DEF CredStep

-----------------------------------------------------------------------------
(* What is kept of the connection. *)

\* What WriteInv says when no two writes crossed.
OneWriter == \A v, w \in Writers : writer[v].pc # "idle" /\ writer[w].pc # "idle" => v = w
HalfInv   == \A w \in Writers : /\ writer[w].pc = "mark" => store.gen # 0
                                /\ writer[w].pc = "delete" => status = "draft"
WholeInv  == (\A w \in Writers : ~Halfway(w)) /\ ~torn =>
               ReadyIffConnected /\ SessionIsOfThisConnection

\* A writer takes a step that is not the first: the others are idle.
LEMMA WriterMoves ==
  ASSUME CredTypeOK, OneWriter, NEW w \in Writers, writer[w].pc # "idle", NEW pc, NEW mat,
         WriterAt(w, pc, mat)
  PROVE  /\ OneWriter' /\ writer'[w].pc = pc
         /\ \A v \in Writers : v # w => writer[v].pc = "idle" /\ writer'[v].pc = "idle"
<1>1. writer'[w].pc = pc /\ \A v \in Writers : v # w => writer'[v] = writer[v]
  BY DEF WriterAt, CredTypeOK
<1>2. \A v \in Writers : v # w => writer[v].pc = "idle" /\ writer'[v].pc = "idle"
  BY <1>1 DEF OneWriter
<1> QED BY <1>1, <1>2 DEF OneWriter

\* The steps of the credential.
LEMMA CredWrite ==
  ASSUME CredTypeOK, MaterialInv, WriteInv, CredStep
  PROVE  WriteInv'
<1>1. crossed => crossed'
  BY DEF CredStep, Expire, GetSession, CreateSession, QueryMaterial, ResumeRead, Exchange,
         RefreshFails, AnswerLost, SaveRefreshed, SaveFails, BeginConsent, BeginPush, BeginDisconnect, Begin,
         CompleteCallback, MergePush, SaveMaterial, MarkConnected, SetDraft, DeleteMaterial, WriteFails
<1>2. SUFFICES ASSUME OneWriter, HalfInv, WholeInv, ~crossed'
               PROVE  OneWriter' /\ HalfInv' /\ WholeInv'
  BY <1>1 DEF WriteInv, OneWriter, HalfInv, WholeInv
<1>3. ASSUME UNCHANGED <<store, status, writer, session, torn>> PROVE OneWriter' /\ HalfInv' /\ WholeInv'
  BY <1>2, <1>3 DEF OneWriter, HalfInv, WholeInv, Halfway, ReadyIffConnected, SessionIsOfThisConnection
<1>4. CASE GetSession \/ CreateSession
  <2>1. UNCHANGED <<store, status, writer, torn>>
    BY <1>4 DEF GetSession, CreateSession
  <2>2. SessionIsOfThisConnection'
    BY <1>4 DEF GetSession, CreateSession, SessionIsOfThisConnection, NoSession
  <2> QED BY <1>2, <2>1, <2>2 DEF OneWriter, HalfInv, WholeInv, Halfway, ReadyIffConnected
<1>5. CASE Expire
  BY <1>3, <1>5 DEF Expire
<1>6. ASSUME NEW r \in Readers, QueryMaterial(r) \/ ResumeRead(r) PROVE OneWriter' /\ HalfInv' /\ WholeInv'
  BY <1>3, <1>6 DEF QueryMaterial, ResumeRead
<1>7. ASSUME NEW p \in Processes, Exchange(p) \/ RefreshFails(p) \/ AnswerLost(p) \/ SaveFails(p)
      PROVE  OneWriter' /\ HalfInv' /\ WholeInv'
  BY <1>3, <1>7 DEF Exchange, RefreshFails, AnswerLost, SaveFails
<1>8. ASSUME NEW p \in Processes, SaveRefreshed(p) PROVE OneWriter' /\ HalfInv' /\ WholeInv'
  <2>1. store = flight[p].base /\ store' = flight[p].new /\ UNCHANGED <<status, writer, session, torn>>
    BY <1>2, <1>8 DEF SaveRefreshed
  <2>2. store.gen # 0 /\ store'.gen # 0 /\ store'.origin = store.origin
    BY <1>8, <2>1 DEF SaveRefreshed, MaterialInv, Refreshable
  <2> QED BY <1>2, <2>1, <2>2
             DEF OneWriter, HalfInv, WholeInv, Halfway, ReadyIffConnected, SessionIsOfThisConnection
\* A writer that is neither before nor after the step between its two halves.
<1>9. ASSUME NEW w \in Writers, NEW pc \in {"idle", "exchange", "merge", "save", "draft"}, NEW mat,
             WriterAt(w, pc, mat), ~Halfway(w), \A v \in Writers \ {w} : writer[v].pc = "idle",
             UNCHANGED <<store, status, session, torn>>
      PROVE  OneWriter' /\ HalfInv' /\ WholeInv'
  <2>1. writer'[w].pc = pc /\ \A v \in Writers : v # w => writer'[v] = writer[v]
    BY <1>9 DEF WriterAt, CredTypeOK
  <2>2. \A v \in Writers : ~Halfway(v) /\ ~Halfway(v)'
    BY <1>9, <2>1 DEF Halfway
  <2>3. OneWriter'
    BY <1>9, <2>1 DEF OneWriter
  <2>4. HalfInv'
    BY <2>2 DEF HalfInv, Halfway
  <2>5. WholeInv'
    BY <1>2, <1>9, <2>2 DEF WholeInv, ReadyIffConnected, SessionIsOfThisConnection
  <2> QED BY <2>3, <2>4, <2>5
<1>10. ASSUME NEW w \in Writers, BeginConsent(w) \/ BeginPush(w) \/ BeginDisconnect(w)
       PROVE  OneWriter' /\ HalfInv' /\ WholeInv'
  <2>1. /\ writer[w].pc = "idle" /\ crossed' = (crossed \/ OtherWriters(w))
        /\ UNCHANGED <<store, status, session, torn>>
    BY <1>10 DEF BeginConsent, BeginPush, BeginDisconnect, Begin
  <2>2. PICK pc \in {"exchange", "merge", "draft"} : WriterAt(w, pc, NoMaterial)
    BY <1>10 DEF BeginConsent, BeginPush, BeginDisconnect, Begin
  <2>3. ~Halfway(w) /\ \A v \in Writers \ {w} : writer[v].pc = "idle"
    BY <1>2, <2>1 DEF OtherWriters, Halfway
  <2> QED BY <1>9, <2>1, <2>2, <2>3
<1>11. ASSUME NEW w \in Writers, CompleteCallback(w) \/ MergePush(w)
       PROVE  OneWriter' /\ HalfInv' /\ WholeInv'
  <2>1. writer[w].pc \in {"exchange", "merge"} /\ UNCHANGED <<store, status, session, torn>>
    BY <1>11 DEF CompleteCallback, MergePush
  <2>2. PICK mat : WriterAt(w, "save", mat)
    BY <1>11 DEF CompleteCallback, MergePush
  <2>3. ~Halfway(w) /\ \A v \in Writers \ {w} : writer[v].pc = "idle"
    BY <1>2, <2>1 DEF OneWriter, Halfway
  <2> QED BY <1>9, <2>1, <2>2, <2>3
<1>12. ASSUME NEW w \in Writers, SaveMaterial(w) PROVE OneWriter' /\ HalfInv' /\ WholeInv'
  <2>1. writer[w].pc = "save" /\ store' = writer[w].mat /\ WriterAt(w, "mark", NoMaterial)
    BY <1>12 DEF SaveMaterial
  <2>2. store'.gen # 0
    BY <2>1 DEF MaterialInv
  <2>3. /\ OneWriter' /\ writer'[w].pc = "mark"
        /\ \A v \in Writers : v # w => writer'[v].pc = "idle"
    BY <1>2, <2>1, WriterMoves
  <2> QED BY <2>2, <2>3 DEF HalfInv, WholeInv, Halfway
<1>13. ASSUME NEW w \in Writers, MarkConnected(w) PROVE OneWriter' /\ HalfInv' /\ WholeInv'
  <2>1. /\ writer[w].pc = "mark" /\ WriterAt(w, "idle", NoMaterial) /\ store' = store
        /\ status' = "ready" /\ session' = NoSession
    BY <1>13 DEF MarkConnected, Evict
  <2>2. store'.gen # 0
    BY <1>2, <2>1 DEF HalfInv
  <2>3. OneWriter' /\ \A v \in Writers : writer'[v].pc = "idle"
    BY <1>2, <2>1, WriterMoves
  <2>4. ReadyIffConnected' /\ SessionIsOfThisConnection'
    BY <2>1, <2>2 DEF ReadyIffConnected, SessionIsOfThisConnection, NoSession
  <2> QED BY <2>3, <2>4 DEF HalfInv, WholeInv
<1>14. ASSUME NEW w \in Writers, SetDraft(w) PROVE OneWriter' /\ HalfInv' /\ WholeInv'
  <2>1. writer[w].pc = "draft" /\ status' = "draft" /\ WriterAt(w, "delete", NoMaterial)
    BY <1>14 DEF SetDraft
  <2>2. /\ OneWriter' /\ writer'[w].pc = "delete"
        /\ \A v \in Writers : v # w => writer'[v].pc = "idle"
    BY <1>2, <2>1, WriterMoves
  <2> QED BY <2>1, <2>2 DEF HalfInv, WholeInv, Halfway
<1>15. ASSUME NEW w \in Writers, DeleteMaterial(w) PROVE OneWriter' /\ HalfInv' /\ WholeInv'
  <2>1. /\ writer[w].pc = "delete" /\ WriterAt(w, "idle", NoMaterial) /\ store' = NoMaterial
        /\ status' = status /\ session' = NoSession
    BY <1>15 DEF DeleteMaterial, Evict, Deleted
  <2>2. status' = "draft"
    BY <1>2, <2>1 DEF HalfInv
  <2>3. OneWriter' /\ \A v \in Writers : writer'[v].pc = "idle"
    BY <1>2, <2>1, WriterMoves
  <2>4. ReadyIffConnected' /\ SessionIsOfThisConnection'
    BY <2>1, <2>2 DEF ReadyIffConnected, SessionIsOfThisConnection, NoSession, NoMaterial
  <2> QED BY <2>3, <2>4 DEF HalfInv, WholeInv
\* A write that fails is over, and booked if it was between its halves.
<1>16. ASSUME NEW w \in Writers, WriteFails(w) PROVE OneWriter' /\ HalfInv' /\ WholeInv'
  <2>1. writer[w].pc # "idle" /\ WriterAt(w, "idle", NoMaterial) /\ session' = session
    BY <1>16 DEF WriteFails
  <2>2. /\ OneWriter' /\ writer'[w].pc = "idle"
        /\ \A v \in Writers : v # w => writer[v].pc = "idle" /\ writer'[v].pc = "idle"
    BY <1>2, <2>1, WriterMoves
  <2>3. CASE Halfway(w)
    <3>1. torn'
      BY <1>16, <2>3 DEF WriteFails, Halfway
    <3> QED BY <2>2, <3>1 DEF HalfInv, WholeInv
  <2>4. CASE ~Halfway(w)
    <3>1. UNCHANGED <<store, status, session, torn>>
      BY <1>16, <2>4 DEF WriteFails, Halfway, CredTypeOK
    <3> QED BY <1>9, <2>1, <2>2, <2>4, <3>1
  <2> QED BY <2>3, <2>4
<1> QED
  BY <1>4, <1>5, <1>6, <1>7, <1>8, <1>10, <1>11, <1>12, <1>13, <1>14, <1>15, <1>16 DEF CredStep

-----------------------------------------------------------------------------
(* The invariant. *)

LEMMA InitInv == Init => Inv
<1> SUFFICES ASSUME Init PROVE Inv
  OBVIOUS
<1>1. /\ MaxTokens \in Nat /\ 1 \in Gens /\ MaxClients \in Nat /\ NoOne \notin Readers
      /\ MaxWrites \in Nat /\ MaxFaults \in Nat
  BY CredentialAssumption, McpAssumption DEF Gens
<1>2. PICK ask \in Asks : home = ask[1] /\ key = ask[2]
  BY DEF Init
<1>3. home \in [Readers -> Processes] /\ key \in [Readers -> Servers]
  <2>1. ask \in [Readers -> Processes] \X [Readers -> Servers]
    BY McpAssumption
  <2> QED BY <1>2, <2>1
<1>4. CredTypeOK
  <2>1. store \in Material /\ issued \in 0..MaxTokens /\ expired \in 0..issued /\ accepted \subseteq 1..issued
    BY <1>1 DEF Init, CredInit, Consented, Material, Gens
  <2>2. /\ reader \in [Readers -> [pc : ReaderPc, mat : Material]]
        /\ flight \in [Processes -> Flights]
        /\ writer \in [Writers -> [pc : WriterPc, mat : Material]]
        /\ session \in [pc : {"none", "loading", "cached"}, origin : 0..MaxTokens]
    BY SmallTypes DEF Init, CredInit
  <2>3. writes \in 0..MaxWrites /\ faults \in 0..MaxFaults /\ used \subseteq Gens
        /\ status \in {"draft", "ready"} /\ stale \in BOOLEAN /\ crossed \in BOOLEAN /\ torn \in BOOLEAN
    <3>1. /\ writes = 0 /\ faults = 0 /\ used = {} /\ status = "ready"
          /\ stale = FALSE /\ crossed = FALSE /\ torn = FALSE
      BY DEF Init, CredInit
    <3>2. 0 \in 0..MaxWrites /\ 0 \in 0..MaxFaults
      BY <1>1
    <3> QED BY <3>1, <3>2
  <2> QED BY <1>3, <2>1, <2>2, <2>3 DEF CredTypeOK
<1>5. /\ \A r \in Readers : caller[r] = IdleCaller /\ reader[r] = IdleReader
      /\ \A p \in Processes : flight[p] = NoFlight
      /\ \A w \in Writers : writer[w] = IdleWriter
      /\ store = Consented(1) /\ accepted = {1} /\ issued = 1
      /\ live = {} /\ shut = {} /\ clients = 0 /\ stale = FALSE
  BY DEF Init, CredInit
<1>6. McpTypeOK
  <2>1. /\ IdleCaller \in [pc : CallerPc, of : Readers \cup {NoOne}]
        /\ [p \in Processes |-> [s \in Servers |-> 0]] \in [Processes -> [Servers -> 0..MaxClients]]
        /\ [p \in Processes |-> [s \in Servers |-> NoOne]] \in [Processes -> [Servers -> Readers \cup {NoOne}]]
    BY <1>1 DEF IdleCaller, CallerPc
  <2> QED BY <1>1, <1>3, <1>4, <2>1 DEF McpTypeOK, Init
<1>7. \A r \in Readers : ~Opens(r) /\ caller[r].pc = "idle" /\ reader[r].pc = "idle"
  BY <1>5 DEF Opens, IdleCaller, IdleReader
<1>8. ClientsInv
  <2>1. Openers = {} /\ {r \in Readers : Opens(r)} = {}
    BY <1>7 DEF Openers
  <2> QED BY <1>1, <1>5, <2>1, FS_EmptySet DEF ClientsInv, Opened
<1>9. PromiseInv
  BY <1>7 DEF PromiseInv, PromisesSettle, Init
<1>10. PoolInv
  BY <1>5, <1>7 DEF PoolInv, OneClientPerServer
<1>11. /\ \A p \in Processes : flight[p].pc = "none"
       /\ \A w \in Writers : writer[w].pc = "idle" /\ writer[w].mat = NoMaterial
       /\ \A r \in Readers : reader[r].mat = NoMaterial
       /\ store.refresh = 1 /\ store.gen = 1 /\ store.origin = 1
  BY <1>5 DEF NoFlight, IdleWriter, IdleReader, Consented
<1>12. MaterialInv
  BY <1>5, <1>11 DEF MaterialInv, Issued, Known, NoMaterial
<1>13. TokenInv
  <2>1. FlightInv /\ FreshInv
    BY <1>11 DEF FlightInv, FreshInv, Saving
  <2> QED BY <1>5, <1>11, <2>1 DEF TokenInv, Token
<1>14. WriteInv
  BY <1>11 DEF WriteInv, Halfway, ReadyIffConnected, SessionIsOfThisConnection, Init, CredInit, NoSession
<1> QED BY <1>6, <1>8, <1>9, <1>10, <1>12, <1>13, <1>14 DEF Inv

\* The pools read the credential and write only what their readers hold.
LEMMA McpCredential ==
  ASSUME CredTypeOK, MaterialInv, TokenInv, WriteInv, McpStep
  PROVE  MaterialInv' /\ TokenInv' /\ WriteInv'
<1>1. UNCHANGED <<store, status, issued, accepted, flight, writer, session, stale, crossed, torn>>
  BY DEF McpStep, GetClient, TokenRead, Connected, ConnectFails, CloseAll, Cleared, credVars
<1>2. \A r \in Readers : reader'[r].mat = reader[r].mat \/ reader'[r] = IdleReader
  <2>1. reader \in [Readers -> [pc : ReaderPc, mat : Material]]
    BY DEF CredTypeOK
  <2>2. ASSUME NEW r \in Readers, GetClient(r) \/ TokenRead(r)
        PROVE  \A q \in Readers : reader'[q].mat = reader[q].mat \/ reader'[q] = IdleReader
    <3>1. \/ reader' = reader \/ reader' = [reader EXCEPT ![r] = IdleReader]
          \/ reader' = [reader EXCEPT ![r] = [reader[r] EXCEPT !.pc = "query"]]
      BY <2>2 DEF GetClient, TokenRead
    <3>2. [reader[r] EXCEPT !.pc = "query"].mat = reader[r].mat
      BY <2>1
    <3> QED BY <2>1, <3>1, <3>2
  <2>3. ASSUME NEW r \in Readers, Connected(r) \/ ConnectFails(r) PROVE reader' = reader
    BY <2>3 DEF Connected, ConnectFails, credVars
  <2>4. ASSUME NEW p \in Stopping, CloseAll(p) \/ Cleared(p) PROVE reader' = reader
    BY <2>4 DEF CloseAll, Cleared, credVars
  <2> QED BY <2>2, <2>3, <2>4 DEF McpStep
<1>3. Known(IdleReader.mat, issued')
  BY <1>1, CredentialAssumption DEF Known, IdleReader, NoMaterial, CredTypeOK
<1>4. MaterialInv'
  BY <1>1, <1>2, <1>3, MaterialKept
<1>5. TokenInv'
  BY <1>1, TokenKept DEF TokenInv, Saving
<1>6. WriteInv'
  BY <1>1 DEF WriteInv, Halfway, ReadyIffConnected, SessionIsOfThisConnection
<1> QED BY <1>4, <1>5, <1>6

LEMMA StepInv == Inv /\ [Next]_vars => Inv'
<1> SUFFICES ASSUME Inv, [Next]_vars PROVE Inv'
  OBVIOUS
<1> USE DEF Inv
<1>0. CredTypeOK
  BY DEF McpTypeOK
<1>1. CASE CredStep /\ UNCHANGED mcpVars
  <2>1. MaterialInv' /\ TokenInv' /\ WriteInv' /\ CredTypeOK'
    BY <1>0, <1>1, CredType, CredMaterial, CredToken, CredWrite
  <2>2. McpTypeOK'
    BY <1>1, <2>1 DEF McpTypeOK, mcpVars
  <2>3. UNCHANGED <<caller, opening, key, pool, clients, live, shut>> /\ home' = home
    BY <1>1 DEF mcpVars, CredStep, Expire, GetSession, CreateSession, QueryMaterial, ResumeRead, Exchange,
         RefreshFails, AnswerLost, SaveRefreshed, SaveFails, BeginConsent, BeginPush, BeginDisconnect, Begin,
         CompleteCallback, MergePush, SaveMaterial, MarkConnected, SetDraft, DeleteMaterial,
         WriteFails
  <2>4. ClientsInv'
    BY <2>3 DEF ClientsInv, Openers, Opened, Opens
  <2>5. JoinedInv'
    BY <1>0, <1>1, CredJoined DEF JoinedInv, PromiseInv, PromisesSettle
  <2>6. PromiseInv'
    BY <2>3, <2>5 DEF PromiseInv, PromisesSettle, JoinedInv, Opens
  <2>7. PoolInv'
    BY <2>3 DEF PoolInv, OneClientPerServer, Opens, Opening, Pooled
  <2> QED BY <2>1, <2>2, <2>4, <2>6, <2>7
<1>2. CASE McpStep
  BY <1>0, <1>2, McpType, McpPromise, McpPool, McpCredential
<1>3. CASE UNCHANGED vars
  <2>1. McpTypeOK'
    BY <1>3 DEF vars, credVars, mcpVars, McpTypeOK, CredTypeOK
  <2>2. ClientsInv' /\ PoolInv'
    BY <1>3 DEF vars, credVars, mcpVars, ClientsInv, Openers, Opened, Opens, PoolInv,
                OneClientPerServer, Opening, Pooled
  <2>3. PromiseInv'
    BY <1>3 DEF vars, credVars, mcpVars, PromiseInv, PromisesSettle, Opens
  <2>4. UNCHANGED <<store, status, issued, accepted, reader, flight, writer, session, stale, crossed,
                   torn>>
    BY <1>3 DEF vars, credVars
  <2>5. MaterialInv'
    BY <1>0, <2>4, MaterialKept
  <2>6. TokenInv'
    BY <2>4, TokenKept DEF TokenInv, Saving
  <2>7. WriteInv'
    BY <2>4 DEF WriteInv, Halfway, ReadyIffConnected, SessionIsOfThisConnection
  <2> QED BY <2>1, <2>2, <2>3, <2>5, <2>6, <2>7
<1> QED BY <1>1, <1>2, <1>3 DEF Next

LEMMA Invariance == Spec => []Inv
BY InitInv, StepInv, PTL DEF Spec

-----------------------------------------------------------------------------
(* What follows. *)

\* Every variable of the pools and of the credential keeps its type: what is refreshed has a
\* refresh token, what is open was opened, and the clients stay within the bound.
THEOREM McpTypes == Spec => []McpTypeOK
<1>1. Inv => McpTypeOK
  BY DEF Inv
<1> QED BY <1>1, Invariance, PTL

\* getOrOpenEntry opens one client per server, and every client that is open stands in the pool
\* where closeAll finds it, as long as the pool is not closed under an opening.
THEOREM PoolsHoldEveryClient == Spec => []OneClientPerServer
<1>1. Inv => OneClientPerServer
  BY DEF Inv, PoolInv
<1> QED BY <1>1, Invariance, PTL

\* The promises of inFlight (the pool's) and of inFlightRefresh (the reader's) are of an opening
\* or a refresh that goes on, whatever fails and whenever the pool is closed.
THEOREM WaitersAreServed == Spec => []PromisesSettle
<1>1. Inv => PromisesSettle
  BY DEF Inv, PromiseInv
<1> QED BY <1>1, Invariance, PTL

\* refreshSingleFlight: a refresh token that the provider rotated is not handed in again, but for
\* what is booked as stale: the races between processes and with old reads, and a new token that
\* was lost with the provider's answer or not saved.
THEOREM TokenHandedInOnce == Spec => []HandedInOnce
<1>1. Inv => HandedInOnce
  <2>1. ASSUME Token, NEW p \in Processes, flight[p].pc = "exchange"
        PROVE  ~Rotated(flight[p].base.refresh)
    BY <2>1 DEF Token, FlightInv, Rotated
  <2> QED BY <2>1 DEF Inv, TokenInv, HandedInOnce
<1> QED BY <1>1, Invariance, PTL

\* The refresh token in the store, if there is one, is one the provider takes, a pushed one too,
\* however reads, refreshes, consents, pushes and disconnects interleave or fail on the way; but
\* for what is booked as stale (the theorem above) and while the answer of a refresh is saved.
THEOREM StoredTokenStaysGood == Spec => []StoredTokenIsAccepted
<1>1. Inv => StoredTokenIsAccepted
  BY DEF Inv, TokenInv, Token, StoredTokenIsAccepted
<1> QED BY <1>1, Invariance, PTL

\* The material, the status of the instance and the session agree when nothing is being written:
\* markOAuth2Connected and disconnectOAuth2 put the status right and evict the session. Excepted
\* are two writes, or a write and a refresh, that crossed, and a write that failed between its
\* halves until the next one that ends.
THEOREM ConnectionStaysWhole == Spec => []ConnectionAgrees
<1>1. Inv => ConnectionAgrees
  <2>1. Quiet => \A w \in Writers : ~Halfway(w)
    BY DEF Quiet, Halfway
  <2> QED BY <2>1 DEF Inv, WriteInv, ConnectionAgrees
<1> QED BY <1>1, Invariance, PTL
=============================================================================
