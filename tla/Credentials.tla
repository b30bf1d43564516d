----------------------------- MODULE Credentials -----------------------------
(***************************************************************************)
(* One OAuth2 credential instance: its material in the store, the provider *)
(* that issued it, those who refresh it (CredentialOAuth2MaterialReader    *)
(* and its single flight), those who replace or remove it (the consent     *)
(* callback, the control plane's push, disconnectOAuth2) and the session a *)
(* process keeps (CredentialSessionServiceImpl).  The API and a worker are *)
(* two processes: flights are per process, the store is shared.  The       *)
(* session is the one of the API process, where evictions happen; a        *)
(* worker never evicts.  Every await ends a step.                          *)
(*                                                                         *)
(* Abstracted: a token is its generation, the refresh token a generation   *)
(* too; encryption, scopes, e-mail addresses and the PKCE state of the     *)
(* consent.  The provider is external: a refresh token it has taken may be *)
(* rotated or stay valid; tokens expire in the order they were issued.     *)
(***************************************************************************)
EXTENDS Naturals, FiniteSets

CONSTANTS
  Readers,      \* callers of readMaterial
  Writers,      \* slots of the consents, pushes and disconnects going on
  MaxTokens,    \* bound: generations the provider issues
  MaxWrites,    \* bound: number of consents, pushes and disconnects
  FaultKinds,   \* the faults that happen, of AllFaults
  MaxFaults     \* bound: number of faults

\* A refresh fails, its answer cannot be saved, a consent, push or disconnect fails or is cut off,
\* a client cannot be opened, the pool is closed.
AllFaults == {"refresh", "save", "write", "connect", "closeAll"}
Processes == {"api", "worker"}

ASSUME CredentialAssumption ==
  /\ MaxTokens \in Nat \ {0} /\ MaxWrites \in Nat /\ MaxFaults \in Nat
  /\ FaultKinds \subseteq AllFaults

VARIABLES
  store,     \* the row of the material
  status,    \* setupStatus of the instance
  issued,    \* provider: number of generations issued
  expired,   \* provider: the generations whose access token is at its end are 1..expired
  accepted,  \* provider: the refresh tokens it takes
  reader,    \* reader[r]: a call of readMaterial
  flight,    \* flight[p]: the refresh of inFlightRefresh
  writer,    \* writer[w]: a consent, push or disconnect
  session,   \* cachedSessionsByInstanceId of the API process
  home,      \* home[r]: the process of the reader
  writes,    \* number of writes
  faults,    \* number of faults
  used,      \* history: the refresh tokens the provider has taken
  stale,     \* history: a refresh began with material the store no longer had or beside the
             \* refresh of another process, or the token it bought was lost or not saved
  crossed,   \* history: a write was saved beside another write or a refresh
  torn       \* history: a write failed between its two halves, and none has ended since

credVars == <<store, status, issued, expired, accepted, reader, flight, writer, session, home,
              writes, faults, used, stale, crossed, torn>>

Gens == 1..MaxTokens
\* origin: the generation of the consent or push it goes back to; pushed: written by the push,
\* whose keys are access_token, refresh_token and expiry.
Material   == [gen : 0..MaxTokens, refresh : 0..MaxTokens, origin : 0..MaxTokens,
               pushed : BOOLEAN]
NoMaterial == [gen |-> 0, refresh |-> 0, origin |-> 0, pushed |-> FALSE]
Consented(g) == [gen |-> g, refresh |-> g, origin |-> g, pushed |-> FALSE]

ReaderPc   == {"idle", "query", "resume", "joined", "done", "failed"}
IdleReader == [pc |-> "idle", mat |-> NoMaterial]
NoFlight   == [pc |-> "none", base |-> NoMaterial, new |-> NoMaterial]
\* What is refreshed has a refresh token.
Flights == {NoFlight} \cup [pc : {"exchange", "save"}, base : {m \in Material : m.refresh # 0},
                            new : Material]
WriterPc   == {"idle", "exchange", "merge", "save", "mark", "draft", "delete"}
IdleWriter == [pc |-> "idle", mat |-> NoMaterial]
NoSession  == [pc |-> "none", origin |-> 0]

\* The instance has been connected by a consent.
CredInit ==
  /\ store = Consented(1) /\ status = "ready"
  /\ issued = 1 /\ expired = 0 /\ accepted = {1}
  /\ reader = [r \in Readers |-> IdleReader]
  /\ flight = [p \in Processes |-> NoFlight]
  /\ writer = [w \in Writers |-> IdleWriter]
  /\ session = NoSession
  /\ writes = 0 /\ faults = 0
  /\ used = {} /\ stale = FALSE /\ crossed = FALSE /\ torn = FALSE

Fault(kind) == kind \in FaultKinds /\ faults < MaxFaults /\ faults' = faults + 1

\* The access token of the latest generations that still live gets old.
Expire ==
  /\ expired < issued
  /\ expired' = expired + 1
  /\ UNCHANGED <<store, status, issued, accepted, reader, flight, writer, session, home, writes,
                 faults, used, stale, crossed, torn>>

-----------------------------------------------------------------------------
(* CredentialOAuth2MaterialReader. *)

\* getOAuth2Material: the row as it is when the query runs.
QueryMaterial(r) ==
  /\ reader[r].pc = "query"
  /\ reader' = [reader EXCEPT ![r] = [pc |-> "resume", mat |-> store]]
  /\ UNCHANGED <<store, status, issued, expired, accepted, flight, writer, session, home, writes,
                 faults, used, stale, crossed, torn>>

\* Variant: only the age of the token is looked at.
ShouldRefreshIfOld(mat) == ~mat.pushed /\ mat.gen <= expired

\* decrypt finds none of the keys a push writes: no expiry, hence no refresh.
ShouldRefresh(mat) == ~mat.pushed /\ mat.refresh # 0 /\ mat.gen <= expired

\* Variant: every read refreshes on its own.
NoFlightYet(p) == TRUE

\* refreshSingleFlight finds no promise.
NotInFlight(p) == flight[p].pc = "none"

OtherFlight(p) == \E q \in Processes \ {p} : flight[q].pc # "none"

\* The query's answer is there: no material, material that lives, or a refresh to join or begin.
ResumeRead(r) ==
  LET p == home[r]
      mat == reader[r].mat
  IN  /\ reader[r].pc = "resume"
      /\ \/ /\ ~ShouldRefresh(mat)
            /\ reader' = [reader EXCEPT ![r].pc = IF mat.gen = 0 THEN "failed" ELSE "done"]
            /\ UNCHANGED <<flight, stale>>
         \/ /\ ShouldRefresh(mat)
            /\ reader' = [reader EXCEPT ![r] = [IdleReader EXCEPT !.pc = "joined"]]
            /\ IF NotInFlight(p)
               THEN /\ flight' = [flight EXCEPT ![p] = [NoFlight EXCEPT !.pc = "exchange",
                                                                        !.base = mat]]
                    /\ stale' = (stale \/ mat # store \/ OtherFlight(p))
               ELSE UNCHANGED <<flight, stale>>
      /\ UNCHANGED <<store, status, issued, expired, accepted, writer, session, home, writes,
                     faults, used, crossed, torn>>

\* The promise settles, for all who joined it, and is forgotten.
EndFlight(p, pc, mat) ==
  /\ flight' = [flight EXCEPT ![p] = NoFlight]
  /\ reader' = [r \in Readers |->
                  IF home[r] = p /\ reader[r].pc = "joined" THEN [pc |-> pc, mat |-> mat]
                  ELSE reader[r]]

\* Variant: the refresh token that came back is not kept.
KeepsOldRefresh(base, refreshed) == base.refresh

\* LocalOAuthFlowExecutor.refresh: the provider's refresh token, or the old one if it sent none.
RefreshToken(base, refreshed) == IF refreshed = 0 THEN base.refresh ELSE refreshed

\* The provider takes the refresh token and issues a generation; it may send a new refresh token
\* and drop the old one.
ProviderTakes(p, sent) ==
  LET old == flight[p].base.refresh
  IN  /\ flight[p].pc = "exchange" /\ old \in accepted /\ issued < MaxTokens
      /\ issued' = issued + 1
      /\ sent \in {0, issued'}
      /\ accepted' = IF sent = 0 THEN accepted ELSE (accepted \ {old}) \cup {sent}
      /\ used' = used \cup {old}

Exchange(p) ==
  LET base == flight[p].base
  IN  /\ \E sent \in 0..MaxTokens :
           /\ ProviderTakes(p, sent)
           /\ flight' = [flight EXCEPT ![p].pc = "save",
                           ![p].new = [base EXCEPT !.gen = issued', !.refresh = RefreshToken(base, sent)]]
      /\ UNCHANGED <<store, status, expired, reader, writer, session, home, writes, faults, stale,
                     crossed, torn>>

\* A refresh that fails returns the stale material to everybody; at the bound the provider
\* refuses.
RefreshFails(p) ==
  /\ flight[p].pc = "exchange"
  /\ \/ (flight[p].base.refresh \notin accepted \/ issued = MaxTokens) /\ UNCHANGED faults
     \/ Fault("refresh")
  /\ EndFlight(p, "done", flight[p].base)
  /\ UNCHANGED <<store, status, issued, expired, accepted, writer, session, home, writes,
                 used, stale, crossed, torn>>

\* The same catch when the provider took the token and its answer did not come, or could not be
\* read: what it bought is lost.
AnswerLost(p) ==
  /\ Fault("refresh")
  /\ \E sent \in 0..MaxTokens : ProviderTakes(p, sent) /\ stale' = (stale \/ sent # 0)
  /\ EndFlight(p, "done", flight[p].base)
  /\ UNCHANGED <<store, status, expired, writer, session, home, writes, crossed, torn>>

SaveRefreshed(p) ==
  /\ flight[p].pc = "save"
  /\ store' = flight[p].new
  /\ crossed' = (crossed \/ store # flight[p].base)
  /\ EndFlight(p, "done", flight[p].new)
  /\ UNCHANGED <<status, issued, expired, accepted, writer, session, home, writes, faults,
                 used, stale, torn>>

SaveFails(p) ==
  /\ flight[p].pc = "save" /\ Fault("save")
  /\ stale' = TRUE
  /\ EndFlight(p, "failed", NoMaterial)
  /\ UNCHANGED <<store, status, issued, expired, accepted, writer, session, home, writes,
                 used, crossed, torn>>

-----------------------------------------------------------------------------
(* The consent callback, the push, disconnectOAuth2; they run in the API process. *)

WriterAt(w, pc, mat) == writer' = [writer EXCEPT ![w] = [pc |-> pc, mat |-> mat]]
OtherWriters(w) == \E v \in Writers \ {w} : writer[v].pc # "idle"

Begin(w, pc) ==
  /\ writer[w].pc = "idle" /\ writes < MaxWrites
  /\ \A v \in Writers : v < w => writer[v].pc # "idle"
  /\ writes' = writes + 1
  /\ crossed' = (crossed \/ OtherWriters(w))
  /\ WriterAt(w, pc, NoMaterial)
  /\ UNCHANGED <<store, status, issued, expired, accepted, reader, flight, session, home, faults,
                 used, stale, torn>>

BeginConsent(w)    == Begin(w, "exchange")
BeginPush(w)       == Begin(w, "merge")
BeginDisconnect(w) == Begin(w, "draft")

\* completeCallback: the code buys a new generation.
CompleteCallback(w) ==
  /\ writer[w].pc = "exchange" /\ issued < MaxTokens
  /\ issued' = issued + 1 /\ accepted' = accepted \cup {issued'}
  /\ WriterAt(w, "save", Consented(issued'))
  /\ UNCHANGED <<store, status, expired, reader, flight, session, home, writes, faults,
                 used, stale, crossed, torn>>

\* A push without a refresh token keeps the one under the key refresh_token, which only a push
\* has written.
Preserved(mat) == IF mat.pushed THEN mat.refresh ELSE 0

\* The push reads the row and merges.
MergePush(w) ==
  /\ writer[w].pc = "merge" /\ issued < MaxTokens
  /\ issued' = issued + 1
  /\ \E sent \in {0, issued'} :
       /\ accepted' = IF sent = 0 THEN accepted ELSE accepted \cup {sent}
       /\ WriterAt(w, "save", [gen |-> issued', origin |-> issued', pushed |-> TRUE,
                               refresh |-> IF sent = 0 THEN Preserved(store) ELSE sent])
  /\ UNCHANGED <<store, status, expired, reader, flight, session, home, writes, faults,
                 used, stale, crossed, torn>>

SaveMaterial(w) ==
  /\ writer[w].pc = "save"
  /\ store' = writer[w].mat
  /\ WriterAt(w, "mark", NoMaterial)
  /\ UNCHANGED <<status, issued, expired, accepted, reader, flight, session, home, writes,
                 faults, used, stale, crossed, torn>>

\* Variant: the session stays.
EvictNothing == UNCHANGED session

\* evictInstance, in this process.
Evict == session' = NoSession

\* markOAuth2Connected.
MarkConnected(w) ==
  /\ writer[w].pc = "mark"
  /\ status' = "ready" /\ Evict
  /\ torn' = FALSE
  /\ WriterAt(w, "idle", NoMaterial)
  /\ UNCHANGED <<store, issued, expired, accepted, reader, flight, home, writes, faults,
                 used, stale, crossed>>

SetDraft(w) ==
  /\ writer[w].pc = "draft"
  /\ status' = "draft"
  /\ WriterAt(w, "delete", NoMaterial)
  /\ UNCHANGED <<store, issued, expired, accepted, reader, flight, session, home, writes, faults,
                 used, stale, crossed, torn>>

\* deleteOAuth2Material.
Deleted == NoMaterial

DeleteMaterial(w) ==
  /\ writer[w].pc = "delete"
  /\ store' = Deleted /\ Evict
  /\ torn' = FALSE
  /\ WriterAt(w, "idle", NoMaterial)
  /\ UNCHANGED <<status, issued, expired, accepted, reader, flight, home, writes, faults,
                 used, stale, crossed>>

\* A consent, push or disconnect throws or is cut off: before its last write, or in it, done or
\* not. The push catches what markOAuth2Connected throws and answers that all is well.
WriteFails(w) ==
  /\ writer[w].pc # "idle" /\ Fault("write")
  /\ \/ UNCHANGED <<store, status>>
     \/ writer[w].pc = "mark" /\ status' = "ready" /\ UNCHANGED store
     \/ writer[w].pc = "delete" /\ store' = Deleted /\ UNCHANGED status
  /\ torn' = (torn \/ writer[w].pc \in {"mark", "delete"})
  /\ WriterAt(w, "idle", NoMaterial)
  /\ UNCHANGED <<issued, expired, accepted, reader, flight, session, home, writes, used, stale,
                 crossed>>

-----------------------------------------------------------------------------
(* CredentialSessionServiceImpl: the promise is in the cache before the material is read. *)

GetSession ==
  /\ session.pc = "none"
  /\ session' = [NoSession EXCEPT !.pc = "loading"]
  /\ UNCHANGED <<store, status, issued, expired, accepted, reader, flight, writer, home, writes,
                 faults, used, stale, crossed, torn>>

\* createSession reads the material; without a usable access token it throws and the promise
\* is forgotten.
CreateSession ==
  /\ session.pc = "loading"
  /\ session' = IF store.gen = 0 \/ store.pushed THEN NoSession
                ELSE [pc |-> "cached", origin |-> store.origin]
  /\ UNCHANGED <<store, status, issued, expired, accepted, reader, flight, writer, home, writes,
                 faults, used, stale, crossed, torn>>

-----------------------------------------------------------------------------
CredStep ==
  \/ Expire \/ GetSession \/ CreateSession
  \/ \E r \in Readers : QueryMaterial(r) \/ ResumeRead(r)
  \/ \E p \in Processes : \/ Exchange(p) \/ RefreshFails(p) \/ AnswerLost(p)
                           \/ SaveRefreshed(p) \/ SaveFails(p)
  \/ \E w \in Writers : \/ BeginConsent(w) \/ BeginPush(w) \/ BeginDisconnect(w)
                        \/ CompleteCallback(w) \/ MergePush(w) \/ SaveMaterial(w)
                        \/ MarkConnected(w) \/ SetDraft(w) \/ DeleteMaterial(w)
                        \/ WriteFails(w)

-----------------------------------------------------------------------------
(* Properties. *)

\* The variables of this module have their types.
CredTypeOK ==
  /\ store \in Material /\ status \in {"draft", "ready"}
  /\ issued \in 0..MaxTokens /\ expired \in 0..issued /\ accepted \subseteq 1..issued
  /\ reader \in [Readers -> [pc : ReaderPc, mat : Material]]
  /\ flight \in [Processes -> Flights]
  /\ writer \in [Writers -> [pc : WriterPc, mat : Material]]
  /\ session \in [pc : {"none", "loading", "cached"}, origin : 0..MaxTokens]
  /\ home \in [Readers -> Processes] /\ writes \in 0..MaxWrites /\ faults \in 0..MaxFaults
  /\ used \subseteq Gens
  /\ stale \in BOOLEAN /\ crossed \in BOOLEAN /\ torn \in BOOLEAN

\* A refresh token that the provider rotates is not handed in twice, by however many readers
\* that find the material old together; the exceptions are a read that began before another
\* refresh ended, a second process, and a new token that was lost: with the provider's answer
\* (the catch of doRefresh keeps the old one) or because it could not be saved.
Rotated(g) == g \notin accepted
HandedInOnce ==
  stale \/ \A p \in Processes :
    flight[p].pc = "exchange" => ~(flight[p].base.refresh \in used
                                     /\ Rotated(flight[p].base.refresh))

\* The refresh token in the store, if there is one, is one the provider still takes, a pushed one
\* too, so the credential can outlive its access token; but for the same exceptions, and while
\* the answer to a refresh is being saved. That there is one is not promised: a push without a
\* refresh token drops the consent's (it looks under another key), a disconnect drops all.
StoredTokenIsAccepted ==
  stale \/ store.refresh = 0 \/ store.refresh \in accepted
    \/ \E p \in Processes : flight[p].pc = "save" /\ flight[p].base = store

\* When nothing is being written, what is kept of the connection agrees: the instance is ready if
\* and only if it has material, and the session the API process keeps was made from the
\* connection that is in the store. A new consent, a push and a disconnect replace it, however
\* they interleave with its creation. Two exceptions: two writes, or a write and a refresh,
\* crossed; a write failed between its halves (markOAuth2Connected after the consent or the
\* push, which swallows it; the deletion after the draft), until the next one that ends, which
\* puts everything right.
Quiet == \A w \in Writers : writer[w].pc = "idle"
ReadyIffConnected == status = "ready" <=> store.gen # 0
SessionIsOfThisConnection == session.pc = "cached" => session.origin = store.origin
ConnectionAgrees == Quiet /\ ~crossed /\ ~torn => ReadyIffConnected /\ SessionIsOfThisConnection
=============================================================================
