---------------------- MODULE ApplicationConfigProofs ----------------------
(***************************************************************************)
(* Proofs about ApplicationConfig, for any applications, hostnames,        *)
(* configurations and number of overlapping requests.                      *)
(***************************************************************************)
EXTENDS ApplicationConfig, FiniteSetTheorems, TLAPS

Updates == {"update", "flushed", "sync"}

\* A request works on an application that exists.  Until another commit makes
\* it stale, what it loaded is the row, and a scale's target fits the bounds.
LoadedIsCurrent ==
    \A r \in Requests : request[r].op \in Updates \cup {"scale"} =>
        LET q == request[r]
        IN /\ apps[q.app].exists
           /\ ~q.stale => q.loaded = Loaded(apps[q.app])
           /\ q.op = "scale" => q.loaded.min <= q.target /\ q.target <= q.loaded.max

\* No two hostnames belong to one application.
HostnamesApart ==
    \A h, k \in Hostnames : domains[h] = domains[k] /\ domains[h] # Nobody => h = k

\* Whoever saved or loaded a configuration with a domain has a Domain row: rows
\* are renamed and never deleted.
DomainHasRow ==
    /\ \A a \in Apps :
          apps[a].exists /\ apps[a].config.domain # NoHostname => DomainsOf(a) # {}
    /\ \A r \in Requests : request[r].op \in Updates =>
          (request[r].loaded.config.domain # NoHostname => DomainsOf(request[r].app) # {})

\* A request that will insert a Domain row has the application's row locked, and
\* the application has none yet.
InsertIsLocked ==
    \A r \in Requests :
        LET q == request[r]
        IN /\ q.op = "flushed" /\ q.config.domain # NoHostname /\ DomainsOf(q.app) = {} =>
                 locked[q.app] = r
           /\ q.op = "sync" /\ q.config.domain # NoHostname /\ q.found = NoHostname =>
                 locked[q.app] = r /\ DomainsOf(q.app) = {}

\* The Domain row that a request found is still there, renamed by an update
\* that made the request stale, or as it was.
FoundIsOwn ==
    \A r \in Requests :
        LET q == request[r]
        IN q.op = "sync" /\ q.found # NoHostname =>
              /\ DomainsOf(q.app) # {}
              /\ ~q.stale => domains[q.found] = q.app

\* A validation that was given an unsound pair has an error from then on.
UnsoundIsError ==
    \A r \in Requests : request[r].op \in {"agent", "answered"} =>
        (request[r].unsound => request[r].errors)

ConfigInv ==
    /\ TypeOK
    /\ LoadedIsCurrent
    /\ HostnamesApart
    /\ DomainHasRow
    /\ InsertIsLocked
    /\ FoundIsOwn
    /\ UnsoundIsError
    /\ BoundsFollowConfig
    /\ HostnameIsOwn

----------------------------------------------------------------------------
(* Types.                                                                  *)

Updating ==
    [op : {"update", "flushed"}, app : Apps, config : Configs, loaded : LoadedRows,
     stale : BOOLEAN]

Syncing ==
    [op : {"sync"}, app : Apps, config : Configs, loaded : LoadedRows, stale : BOOLEAN,
     found : Hostnames \cup {NoHostname}]

Scaling == [op : {"scale"}, app : Apps, target : Targets, loaded : LoadedRows, stale : BOOLEAN]

\* The fields a request has, by what it is about to do.
LEMMA Kinds ==
  ASSUME NEW q \in RequestStates
  PROVE  /\ q.op = "create" => q \in [op : {"create"}, slug : Slugs, config : Configs]
         /\ q.op \in {"update", "flushed"} => q \in Updating
         /\ q.op = "sync" => q \in Syncing
         /\ q.op = "scale" => q \in Scaling
         /\ q.op \in {"set_secret", "delete_secret"} =>
               q \in [op : {"set_secret", "delete_secret"}, app : Apps, key : Keys,
                      found : BOOLEAN]
         /\ q.op = "certificate" =>
               q \in [op : {"certificate"}, cert : BOOLEAN, errors : BOOLEAN]
         /\ q.op \in {"agent", "answered"} =>
               q \in [op : {"agent", "answered"}, errors : BOOLEAN, unsound : BOOLEAN]
  BY DEF RequestStates, Idle, Updating, Syncing, Scaling

LEMMA Rows ==
  ASSUME TypeOK
  PROVE  /\ \A a \in Apps : apps[a].exists => apps[a] \in AppRows
         /\ \A r \in Requests : request[r] \in RequestStates
  BY DEF TypeOK, NoApp

LEMMA BecomeTypes ==
  ASSUME NEW r \in Requests, NEW q \in RequestStates, Become(r, q),
         request \in [Requests -> RequestStates]
  PROVE  /\ request' \in [Requests -> RequestStates]
         /\ request'[r] = q
         /\ \A s \in Requests \ {r} : request'[s] = request[s]
  BY DEF Become

LEMMA FinishTypes ==
  ASSUME NEW r \in Requests, NEW a \in Apps, Finish(r, a), request \in [Requests -> RequestStates]
  PROVE  /\ request' \in [Requests -> RequestStates]
         /\ request'[r] = Idle
         /\ \A s \in Requests \ {r} :
               IF request[s].op \in Updates \cup {"scale"} /\ request[s].app = a
               THEN request'[s] = [request[s] EXCEPT !.stale = TRUE]
               ELSE request'[s] = request[s]
  <1>1. /\ request'[r] = Idle
        /\ \A s \in Requests \ {r} :
               IF request[s].op \in Updates \cup {"scale"} /\ request[s].app = a
               THEN request'[s] = [request[s] EXCEPT !.stale = TRUE]
               ELSE request'[s] = request[s]
    BY DEF Finish, Updates
  <1>2. ASSUME NEW s \in Requests, request[s].op \in Updates \cup {"scale"}
        PROVE  [request[s] EXCEPT !.stale = TRUE] \in RequestStates
    <2>1. CASE request[s].op \in {"update", "flushed"}
      <3>1. request[s] \in Updating
        BY <2>1, Kinds
      <3>2. [request[s] EXCEPT !.stale = TRUE] \in Updating
        BY ZenonT(30), <3>1 DEF Updating
      <3> QED
        BY <3>2 DEF RequestStates, Updating
    <2>2. CASE request[s].op = "sync"
      <3>1. request[s] \in Syncing
        BY <2>2, Kinds
      <3>2. [request[s] EXCEPT !.stale = TRUE] \in Syncing
        BY ZenonT(30), <3>1 DEF Syncing
      <3> QED
        BY <3>2 DEF RequestStates, Syncing
    <2>3. CASE request[s].op = "scale"
      <3>1. request[s] \in Scaling
        BY <2>3, Kinds
      <3>2. [request[s] EXCEPT !.stale = TRUE] \in Scaling
        BY ZenonT(30), <3>1 DEF Scaling
      <3> QED
        BY <3>2 DEF RequestStates, Scaling
    <2> QED
      BY <1>2, <2>1, <2>2, <2>3 DEF Updates
  <1>3. Idle \in RequestStates
    BY DEF RequestStates
  <1>4. request' = [s \in Requests |-> request'[s]]
    BY DEF Finish
  <1> QED
    BY <1>1, <1>2, <1>3, <1>4

LEMMA LoadTypes ==
  ASSUME NEW row \in AppRows
  PROVE  Loaded(row) \in LoadedRows
  BY DEF AppRows, LoadedRows, Loaded

LEMMA AssignedTypes ==
  ASSUME NEW q, q.config \in Configs, q.loaded \in LoadedRows
  PROVE  Assigned(q) \in LoadedRows
  <1>1. q.config.min \in Counts /\ q.config.max \in Counts /\ q.loaded.desired \in Counts
    BY DEF Counts, LoadedRows
  <1>2. ClampedReplicas(q.loaded.desired, q.config) \in Counts
    BY <1>1 DEF ClampedReplicas
  <1> QED
    BY <1>1, <1>2 DEF Assigned, LoadedRows

\* A step that changes no table keeps the types when it keeps those of requests.
LEMMA ReadTypes ==
  ASSUME TypeOK, request' \in [Requests -> RequestStates],
         UNCHANGED <<apps, domains, secrets, locked, writes>>
  PROVE  TypeOK'
  BY DEF TypeOK

----------------------------------------------------------------------------
(* Validation.                                                             *)

Failing(c) == ~c.passed /\ c.severity = "error"

\* The report of the Gateway Manager has an error exactly for a pair that is not
\* sound, whenever the route answers at all.
LEMMA CertificateVerdict ==
  ASSUME NEW p \in Pairs, ~(OpensKey(p) /\ LoadPrivateKeyRaises(p))
  PROVE  CertificateError(p) <=> ~Sound(p)
  <1> DEFINE readable == {ReadableFileCheck("cert_path", p.cert),
                          ReadableFileCheck("key_path", p.key)}
  <1>0. CertificateError(p) <=> \E c \in ValidateCertificate(p) : Failing(c)
    BY DEF CertificateError, Failing
  <1>1. \A n, v : /\ \A b \in BOOLEAN : Failing(Check(n, v, b)) <=> ~b /\ v = "error"
                  /\ \A b \in BOOLEAN : Check(n, v, b).passed <=> b
    BY DEF Check, Failing
  <1>a. \A n, file : /\ file \in Unreadable => /\ Failing(ReadableFileCheck(n, file))
                                               /\ ~ReadableFileCheck(n, file).passed
                     /\ file \notin Unreadable => /\ ~Failing(ReadableFileCheck(n, file))
                                                  /\ ReadableFileCheck(n, file).passed
    BY ZenonT(30), <1>1 DEF ReadableFileCheck
  <1>2. CASE p.cert \in Unreadable \/ p.key \in Unreadable
    <2>1. \E c \in readable : Failing(c) /\ ~c.passed
      BY <1>a, <1>2
    <2>2. ValidateCertificate(p) = readable
      BY ZenonT(30), <2>1 DEF ValidateCertificate
    <2> QED
      BY <1>0, <1>2, <2>1, <2>2 DEF Sound, Unreadable, Formats
  <1>3. CASE p.cert \notin Unreadable /\ p.key \notin Unreadable
    <2>1. \A c \in readable : c.passed /\ ~Failing(c)
      BY <1>a, <1>3
    <2>2. CASE p.cert \notin Formats
      <3>1. ~LoadCertificate(p).passed /\ Failing(LoadCertificate(p))
        BY ZenonT(30), <1>1, <2>2 DEF LoadCertificate, Failing
      <3>2. LoadCertificate(p) \in ValidateCertificate(p)
        BY <2>1, <3>1 DEF ValidateCertificate
      <3> QED
        BY <1>0, <2>2, <3>1, <3>2 DEF Sound
    <2>3. CASE p.cert \in Formats /\ p.key \notin Formats
      <3>1. LoadCertificate(p).passed
        BY ZenonT(30), <1>1, <2>3 DEF LoadCertificate
      <3>2. ~LoadPrivateKey(p).passed /\ Failing(LoadPrivateKey(p))
        BY ZenonT(30), <1>1, <2>3 DEF LoadPrivateKey, Failing
      <3>3. LoadPrivateKey(p) \in ValidateCertificate(p)
        BY <2>1, <3>1, <3>2 DEF ValidateCertificate
      <3> QED
        BY <1>0, <2>3, <3>2, <3>3 DEF Sound
    <2>4. CASE p.cert \in Formats /\ p.key \in Formats
      <3>1. LoadCertificate(p).passed /\ LoadPrivateKey(p).passed
        BY ZenonT(30), <1>1, <2>4 DEF LoadCertificate, LoadPrivateKey
      <3>2. ValidateCertificate(p) =
               readable \cup {LoadCertificate(p), LoadPrivateKey(p),
                              Check("key_matches_cert", "error", p.matches)}
               \cup DateChecks(p) \cup {Check("fingerprint", "info", TRUE)}
        BY ZenonT(30), <2>1, <3>1 DEF ValidateCertificate
      <3>3. (\E c \in ValidateCertificate(p) : Failing(c)) <=>
                ~p.matches \/ \E c \in DateChecks(p) : Failing(c)
        <4>1. p.matches \in BOOLEAN
          BY DEF Pairs
        <4>2. /\ Failing(Check("key_matches_cert", "error", p.matches)) <=> ~p.matches
              /\ ~Failing(Check("fingerprint", "info", TRUE))
              /\ ~Failing(LoadCertificate(p)) /\ ~Failing(LoadPrivateKey(p))
          BY ZenonT(30), <1>1, <3>1, <4>1 DEF Failing
        <4> QED
          BY ZenonT(30), <2>1, <3>2, <4>2
      <3>4. (\E c \in DateChecks(p) : Failing(c)) <=> Today > p.notAfter
        <4>1. /\ ~Failing(Check("not_yet_valid", "warning", FALSE))
              /\ ~Failing(Check("expiring_soon", "warning", FALSE))
              /\ Failing(Check("expired", "error", FALSE))
          BY DEF Check, Failing
        <4> QED
          BY ZenonT(30), <4>1 DEF DateChecks
      <3>5. Today > p.notAfter <=> ~(Today <= p.notAfter)
        <4>1. p.notAfter \in Nat /\ Today \in Nat
          BY ZenonT(30), CertificateConstants DEF Pairs
        <4> QED
          BY <4>1
      <3> QED
        BY <1>0, <2>4, <3>3, <3>4, <3>5 DEF Sound
    <2> QED
      BY <2>2, <2>3, <2>4
  <1> QED
    BY <1>2, <1>3

Judged(q) ==
    /\ q.op \in {"certificate", "agent", "answered"}
    /\ q.op # "certificate" => (q.unsound => q.errors)

\* What a step of a validation does to its request.
LEMMA ValidateStep ==
  ASSUME TypeOK, UnsoundIsError, NEW r \in Requests, Validate(r)
  PROVE  /\ UNCHANGED <<apps, domains, secrets, locked, writes>>
         /\ \E q \in RequestStates : Become(r, q) /\ (q = Idle \/ Judged(q))
  <1> DEFINE Goes(q) == q \in RequestStates /\ Become(r, q) /\ Judged(q)
  <1>0. /\ request[r] \in RequestStates /\ Idle \in RequestStates
        /\ request[r].op = "agent" => Judged(request[r])
    BY DEF TypeOK, UnsoundIsError, Judged, RequestStates
  <1>1. UNCHANGED <<apps, domains, secrets, locked, writes>>
    BY ZenonT(30) DEF Validate, CheckRecords, NoCertificate, CertificateUnchecked, CertificateChecked,
       CertificateRaises, AgentChecked, Answer
  <1>2. ASSUME NEW e \in BOOLEAN, NEW u \in BOOLEAN, u => e, request[r].op = "certificate",
               CertificateReported(r, e, u)
        PROVE  \E q : Goes(q)
    <2>1. PICK f \in BOOLEAN : f = (request[r].errors \/ e)
      BY ZenonT(30)
    <2>2. PICK q : q = [op |-> "agent", errors |-> f, unsound |-> u]
      BY ZenonT(30)
    <2>3. q \in RequestStates /\ q.op = "agent" /\ q.errors = f /\ q.unsound = u
      BY <2>2 DEF RequestStates
    <2>4. Become(r, q)
      BY <1>2, <2>1, <2>2 DEF CertificateReported
    <2>5. u => f
      BY ZenonT(30), <1>2, <2>1
    <2> QED
      BY <2>3, <2>4, <2>5 DEF Judged
  <1>3. ASSUME NEW a \in Apps, CheckRecords(r, a)
        PROVE  \E q : Goes(q)
    <2>1. apps[a].config \in Configs
      BY ZenonT(30), <1>3, Rows DEF CheckRecords, AppRows
    <2>2. apps[a].config.cert \in BOOLEAN
      BY <2>1, ConfigConstants
    <2>3. PICK f \in BOOLEAN :
              f = (DomainError(a, apps[a].config) \/ SecretError(a, apps[a].config))
      BY ZenonT(30)
    <2>4. PICK q : q = [op |-> "certificate", cert |-> apps[a].config.cert, errors |-> f]
      BY ZenonT(30)
    <2>5. q \in RequestStates /\ q.op = "certificate"
      BY <2>2, <2>4 DEF RequestStates
    <2>6. Become(r, q)
      BY <1>3, <2>3, <2>4 DEF CheckRecords
    <2> QED
      BY <2>5, <2>6 DEF Judged
  <1>4. ASSUME NEW p \in Pairs, CertificateChecked(r, p)
        PROVE  \E q : Goes(q)
    <2>1. CertificateError(p) <=> ~Sound(p)
      BY <1>4, CertificateVerdict DEF CertificateChecked
    <2>2. CertificateError(p) \in BOOLEAN /\ (~Sound(p)) \in BOOLEAN
      BY DEF CertificateError, Sound
    <2>3. request[r].op = "certificate" /\ CertificateReported(r, CertificateError(p), ~Sound(p))
      BY <1>4 DEF CertificateChecked
    <2> QED
      BY <1>2, <2>1, <2>2, <2>3
  <1>5. CASE NoCertificate(r) \/ \E refused \in BOOLEAN : CertificateUnchecked(r, refused)
    BY ZenonT(30), <1>2, <1>5 DEF NoCertificate, CertificateUnchecked
  <1>6. ASSUME NEW answer \in AgentAnswers, AgentChecked(r, answer)
        PROVE  \E q : Goes(q)
    <2>1. request[r] \in [op : {"agent", "answered"}, errors : BOOLEAN, unsound : BOOLEAN]
      BY <1>0, <1>6, Kinds DEF AgentChecked
    <2>2. PICK f \in BOOLEAN : f = (request[r].errors \/ AgentError(answer))
      BY ZenonT(30)
    <2>3. PICK q : q = [request[r] EXCEPT !.op = "answered", !.errors = f]
      OBVIOUS
    <2>4. /\ q \in [op : {"agent", "answered"}, errors : BOOLEAN, unsound : BOOLEAN]
          /\ q.op = "answered" /\ q.errors = f /\ q.unsound = request[r].unsound
      BY ZenonT(30), <2>1, <2>3
    <2>5. Become(r, q)
      BY <1>6, <2>2, <2>3 DEF AgentChecked
    <2>6. request[r].unsound => f
      BY ZenonT(30), <1>0, <1>6, <2>2 DEF Judged, AgentChecked
    <2>7. q \in RequestStates
      BY <2>4 DEF RequestStates
    <2> QED
      BY <2>4, <2>5, <2>6, <2>7 DEF Judged
  <1>7. CASE Answer(r) \/ \E p \in Pairs : CertificateRaises(r, p)
    BY <1>0, <1>7 DEF Answer, CertificateRaises
  <1> HIDE DEF Goes
  <1>8. CASE \E q : Goes(q)
    BY ZenonT(30), <1>1, <1>8 DEF Goes
  <1>9. \/ \E a \in Apps : CheckRecords(r, a)
        \/ NoCertificate(r) \/ \E refused \in BOOLEAN : CertificateUnchecked(r, refused)
        \/ \E p \in Pairs : CertificateChecked(r, p)
        \/ \E answer \in AgentAnswers : AgentChecked(r, answer)
        \/ Answer(r) \/ \E p \in Pairs : CertificateRaises(r, p)
    BY ZenonT(30) DEF Validate
  <1> QED
    BY ZenonT(30), <1>3, <1>4, <1>5, <1>6, <1>7, <1>8, <1>9

----------------------------------------------------------------------------
(* Types of the steps that write.                                          *)

LEMMA WriteTypes ==
  ASSUME TypeOK, NEW r \in Requests
  PROVE  /\ \A a \in Apps : CreateApplication(r, a) => TypeOK'
         /\ FlushApplication(r) \/ RefuseUpdate(r) => TypeOK'
         /\ SetSecret(r) \/ DeleteSecret(r) => TypeOK'
  <1>0. /\ request[r] \in RequestStates /\ request \in [Requests -> RequestStates]
        /\ Idle \in RequestStates
    BY DEF TypeOK, RequestStates
  <1>1. ASSUME NEW a \in Apps, CreateApplication(r, a) PROVE TypeOK'
    <2> DEFINE q == request[r]
               row == [exists |-> TRUE, slug |-> q.slug, min |-> q.config.min,
                       max |-> q.config.max, desired |-> q.config.min, config |-> q.config,
                       overlapped |-> FALSE]
    <2>1. q \in [op : {"create"}, slug : Slugs, config : Configs]
      BY <1>0, <1>1, Kinds DEF CreateApplication
    <2>2. row \in AppRows
      BY <2>1 DEF AppRows, Counts
    <2>3. /\ apps' = [apps EXCEPT ![a] = row] /\ ~apps[a].exists
          /\ q.slug \notin SlugsTaken
          /\ request' \in [Requests -> RequestStates]
          /\ writes' \in Nat /\ UNCHANGED <<secrets, locked>>
          /\ domains' \in [Hostnames -> Apps \cup {Nobody}]
          /\ \A h \in Hostnames : domains'[h] = a \/ domains'[h] = domains[h]
      BY <1>0, <1>1, BecomeTypes DEF CreateApplication, CreateConflicts, TypeOK
    <2>4. row.exists /\ row.slug = q.slug
      OBVIOUS
    <2>5. \A b \in Apps : apps[b].exists => apps[b].slug # q.slug
      BY <2>3 DEF SlugsTaken
    <2> HIDE DEF row, q
    <2>6. /\ apps' \in [Apps -> AppRows \cup {NoApp}]
          /\ \A b, c \in Apps : b # c /\ apps'[b].exists /\ apps'[c].exists =>
                apps'[b].slug # apps'[c].slug
          /\ \A h \in Hostnames : domains'[h] # Nobody => apps'[domains'[h]].exists
      BY <2>2, <2>3, <2>4, <2>5 DEF TypeOK
    <2> QED
      BY <2>3, <2>6 DEF TypeOK
  <1>2. CASE FlushApplication(r)
    <2>1. request[r] \in Updating
      BY <1>0, <1>2, Kinds DEF FlushApplication
    <2>2. [request[r] EXCEPT !.op = "flushed"] \in Updating
      BY <2>1 DEF Updating
    <2>3. [request[r] EXCEPT !.op = "flushed"] \in RequestStates
      BY <2>2 DEF Updating, RequestStates
    <2>4. request[r].app \in Apps
      BY <2>1 DEF Updating
    <2>5. locked' \in [Apps -> Requests \cup {Nobody}]
      BY <1>2, <2>4 DEF FlushApplication, TypeOK
    <2> QED
      BY <1>0, <1>2, <2>3, <2>5, BecomeTypes DEF FlushApplication, TypeOK
  <1>3. CASE RefuseUpdate(r)
    <2>1. locked' \in [Apps -> Requests \cup {Nobody}]
      BY <1>3 DEF RefuseUpdate, Unlocked, TypeOK
    <2> QED
      BY <1>0, <1>3, <2>1, BecomeTypes DEF RefuseUpdate, TypeOK
  <1>4. CASE SetSecret(r) \/ DeleteSecret(r)
    <2>1. request[r].app \in Apps /\ request[r].key \in Keys
      BY <1>0, <1>4, Kinds DEF SetSecret, DeleteSecret
    <2>2. secrets' \subseteq Apps \X Keys
      BY <1>4, <2>1 DEF SetSecret, DeleteSecret, TypeOK
    <2> QED
      BY <1>0, <1>4, <2>2, BecomeTypes DEF SetSecret, DeleteSecret, TypeOK
  <1> QED
    BY <1>1, <1>2, <1>3, <1>4

\* The row an update leaves: what was assigned, when nobody wrote in between.
LEMMA UpdatedRow ==
  ASSUME TypeOK, LoadedIsCurrent, NEW r \in Requests, UpdateApplication(r)
  PROVE  LET q == request[r]
         IN /\ q \in Syncing
            /\ apps[q.app].exists
            /\ \E row \in AppRows :
                  /\ apps' = [apps EXCEPT ![q.app] = row]
                  /\ row.slug = apps[q.app].slug
                  /\ row.overlapped = (apps[q.app].overlapped \/ q.stale)
                  /\ row.config \in {apps[q.app].config, q.config}
                  /\ ~q.stale => Loaded(row) = Assigned(q)
  <1> DEFINE q == request[r]
             a == q.app
             new == Assigned(q)
             row == [apps[a] EXCEPT
                       !.min = Column(@, q.loaded.min, new.min),
                       !.max = Column(@, q.loaded.max, new.max),
                       !.desired = Column(@, q.loaded.desired, new.desired),
                       !.config = Column(@, q.loaded.config, new.config),
                       !.overlapped = @ \/ q.stale]
  <1>1. q \in Syncing /\ q.op = "sync"
    BY ZenonT(30), Rows, Kinds DEF UpdateApplication
  <1>2. /\ a \in Apps /\ q.config \in Configs /\ q.loaded \in LoadedRows
        /\ q.stale \in BOOLEAN
    BY <1>1 DEF Syncing
  <1>3. apps[a].exists /\ (~q.stale => q.loaded = Loaded(apps[a]))
    BY <1>1 DEF LoadedIsCurrent, Updates
  <1>4. apps[a] \in AppRows
    BY <1>2, <1>3, Rows
  <1>5. new \in LoadedRows /\ new.config = q.config
    BY <1>2, AssignedTypes DEF Assigned
  <1>6. apps \in [Apps -> AppRows \cup {NoApp}]
    BY DEF TypeOK
  <1>7. apps' = [apps EXCEPT ![a] = row]
    BY ZenonT(30), <1>2, <1>4, <1>6 DEF UpdateApplication
  <1> HIDE DEF new
  <1>8. row \in AppRows
    BY ZenonT(30), <1>2, <1>4, <1>5 DEF AppRows, LoadedRows, Column
  <1>9. /\ row.slug = apps[a].slug
        /\ row.overlapped = (apps[a].overlapped \/ q.stale)
        /\ row.min = Column(apps[a].min, q.loaded.min, new.min)
        /\ row.max = Column(apps[a].max, q.loaded.max, new.max)
        /\ row.desired = Column(apps[a].desired, q.loaded.desired, new.desired)
        /\ row.config = Column(apps[a].config, q.loaded.config, new.config)
    BY <1>4 DEF AppRows
  <1> HIDE DEF row
  <1>10. row.config \in {apps[a].config, q.config}
    BY <1>5, <1>9 DEF Column
  <1>11. ASSUME ~q.stale PROVE Loaded(row) = new
    <2>1. q.loaded = Loaded(apps[a])
      BY <1>3, <1>11
    <2>2. /\ q.loaded.min = apps[a].min /\ q.loaded.max = apps[a].max
          /\ q.loaded.desired = apps[a].desired /\ q.loaded.config = apps[a].config
      BY <2>1 DEF Loaded
    <2>3. /\ row.min = new.min /\ row.max = new.max /\ row.desired = new.desired
          /\ row.config = new.config
      BY <1>9, <2>2 DEF Column
    <2> QED
      BY <1>5, <2>3 DEF Loaded, LoadedRows
  <1> QED
    BY ZenonT(30), <1>1, <1>3, <1>7, <1>8, <1>9, <1>10, <1>11 DEF new

\* The row a scale leaves.
LEMMA ScaledRow ==
  ASSUME TypeOK, LoadedIsCurrent, NEW r \in Requests, StartScale(r)
  PROVE  LET q == request[r]
         IN /\ q \in Scaling
            /\ apps[q.app].exists
            /\ \E row \in AppRows :
                  /\ apps' = [apps EXCEPT ![q.app] = row]
                  /\ row.slug = apps[q.app].slug
                  /\ row.overlapped = (apps[q.app].overlapped \/ q.stale)
                  /\ row.config = apps[q.app].config
                  /\ row.min = apps[q.app].min /\ row.max = apps[q.app].max
                  /\ ~q.stale => row.desired = q.target
  <1> DEFINE q == request[r]
             a == q.app
             row == [apps[a] EXCEPT !.desired = Column(@, q.loaded.desired, q.target),
                                    !.overlapped = @ \/ q.stale]
  <1>1. q \in Scaling /\ q.op = "scale"
    BY Rows, Kinds DEF StartScale
  <1>2. a \in Apps /\ q.target \in Counts /\ q.stale \in BOOLEAN
    BY <1>1 DEF Scaling, Counts
  <1>3. apps[a].exists /\ (~q.stale => q.loaded = Loaded(apps[a]))
    BY <1>1 DEF LoadedIsCurrent
  <1>4. apps[a] \in AppRows
    BY <1>2, <1>3, Rows
  <1>5. apps \in [Apps -> AppRows \cup {NoApp}]
    BY DEF TypeOK
  <1>6. apps' = [apps EXCEPT ![a] = row]
    BY ZenonT(30), <1>2, <1>4, <1>5 DEF StartScale
  <1>7. row \in AppRows
    BY ZenonT(30), <1>2, <1>4 DEF AppRows, Column
  <1>8. /\ row.slug = apps[a].slug /\ row.config = apps[a].config
        /\ row.min = apps[a].min /\ row.max = apps[a].max
        /\ row.overlapped = (apps[a].overlapped \/ q.stale)
        /\ row.desired = Column(apps[a].desired, q.loaded.desired, q.target)
    BY <1>4 DEF AppRows
  <1> HIDE DEF row
  <1>9. ~q.stale => row.desired = q.target
    BY <1>3, <1>8 DEF Column, Loaded
  <1> QED
    BY ZenonT(30), <1>1, <1>3, <1>6, <1>7, <1>8, <1>9

\* Writing the row of an application that exists keeps the types.
LEMMA RowTypes ==
  ASSUME TypeOK, NEW r \in Requests, NEW a \in Apps, NEW row \in AppRows, apps[a].exists,
         apps' = [apps EXCEPT ![a] = row], row.slug = apps[a].slug,
         domains' \in [Hostnames -> Apps \cup {Nobody}],
         \A h \in Hostnames : domains'[h] \in {a, Nobody, domains[h]},
         UNCHANGED secrets, locked' \in [Apps -> Requests \cup {Nobody}],
         Finish(r, a), writes' = writes + 1
  PROVE  TypeOK'
  <1>1. request' \in [Requests -> RequestStates]
    BY FinishTypes DEF TypeOK
  <1>2. row.exists
    BY ZenonT(30) DEF AppRows
  <1>3. apps' \in [Apps -> AppRows \cup {NoApp}]
    BY DEF TypeOK
  <1>4. \A b \in Apps : /\ apps'[b].exists <=> apps[b].exists
                        /\ apps[b].exists => apps'[b].slug = apps[b].slug
    BY <1>2 DEF TypeOK
  <1>5. \A b, c \in Apps : b # c /\ apps'[b].exists /\ apps'[c].exists =>
            apps'[b].slug # apps'[c].slug
    BY <1>4 DEF TypeOK
  <1>6. \A h \in Hostnames : domains'[h] # Nobody => apps'[domains'[h]].exists
    BY <1>4 DEF TypeOK
  <1> QED
    BY <1>1, <1>3, <1>5, <1>6 DEF TypeOK

----------------------------------------------------------------------------
(* The invariant, request by request.                                      *)

\* What the invariant says of request r when its state is q.
Good(r, q) ==
    /\ q.op \in Updates \cup {"scale"} =>
          apps[q.app].exists /\ (~q.stale => q.loaded = Loaded(apps[q.app]))
    /\ q.op = "scale" => q.loaded.min <= q.target /\ q.target <= q.loaded.max
    /\ q.op \in Updates => (q.loaded.config.domain # NoHostname => DomainsOf(q.app) # {})
    /\ q.op = "flushed" /\ q.config.domain # NoHostname /\ DomainsOf(q.app) = {} =>
          locked[q.app] = r
    /\ q.op = "sync" /\ q.config.domain # NoHostname /\ q.found = NoHostname =>
          locked[q.app] = r /\ DomainsOf(q.app) = {}
    /\ q.op = "sync" /\ q.found # NoHostname =>
          DomainsOf(q.app) # {} /\ (~q.stale => domains[q.found] = q.app)
    /\ q.op \in {"agent", "answered"} => (q.unsound => q.errors)

AppsHaveRows ==
    \A a \in Apps :
        apps[a].exists /\ apps[a].config.domain # NoHostname => DomainsOf(a) # {}

LEMMA Apart ==
  ASSUME ConfigInv
  PROVE  AppsHaveRows /\ \A r \in Requests : Good(r, request[r])
  <1>1. AppsHaveRows
    BY DEF ConfigInv, DomainHasRow, AppsHaveRows
  <1>2. ASSUME NEW r \in Requests PROVE Good(r, request[r])
    BY DEF ConfigInv, LoadedIsCurrent, DomainHasRow, InsertIsLocked, FoundIsOwn,
           UnsoundIsError, Good
  <1> QED
    BY <1>1, <1>2

LEMMA Together ==
  ASSUME TypeOK', HostnamesApart', AppsHaveRows', BoundsFollowConfig', HostnameIsOwn',
         \A r \in Requests : Good(r, request[r])'
  PROVE  ConfigInv'
  <1>1. LoadedIsCurrent'
    BY DEF LoadedIsCurrent, Good, Updates
  <1>2. DomainHasRow' /\ InsertIsLocked' /\ FoundIsOwn' /\ UnsoundIsError'
    BY DEF DomainHasRow, AppsHaveRows, InsertIsLocked, FoundIsOwn, UnsoundIsError, Good
  <1> QED
    BY <1>1, <1>2 DEF ConfigInv

\* A step that leaves applications and domains as they are has to establish the
\* invariant for its own request only, if it takes nobody's lock away.
LEMMA RowsKept ==
  ASSUME ConfigInv, TypeOK', UNCHANGED <<apps, domains>>,
         NEW r \in Requests, NEW q, request'[r] = q, Good(r, q)',
         \A s \in Requests \ {r} : request'[s] = request[s],
         \A s \in Requests \ {r}, a \in Apps : locked[a] = s => locked'[a] = s
  PROVE  ConfigInv'
  <1>1. \A a : DomainsOf(a)' = DomainsOf(a)
    BY DEF DomainsOf
  <1>2. AppsHaveRows'
    BY <1>1, Apart DEF AppsHaveRows
  <1>3. HostnamesApart' /\ BoundsFollowConfig' /\ HostnameIsOwn'
    BY DEF ConfigInv, HostnamesApart, BoundsFollowConfig, HostnameIsOwn
  <1>4. ASSUME NEW s \in Requests PROVE Good(s, request[s])'
    <2>1. CASE s = r
      BY <2>1
    <2>2. CASE s # r
      <3> DEFINE p == request[s]
      <3>1. p \in RequestStates /\ Good(s, p) /\ request'[s] = p
        BY <2>2, Rows, Apart DEF ConfigInv
      <3>2. p.op \in {"flushed", "sync"} => p.app \in Apps
        BY <3>1, Kinds DEF Updating, Syncing
      <3>3. p.op \in {"flushed", "sync"} /\ locked[p.app] = s => locked'[p.app] = s
        BY <2>2, <3>2
      <3> HIDE DEF p
      <3> QED
        BY <1>1, <3>1, <3>3 DEF Good
    <2> QED
      BY <2>1, <2>2
  <1> QED
    BY <1>2, <1>3, <1>4, Together

LEMMA IdleIsGood ==
  ASSUME NEW r \in Requests
  PROVE  Good(r, Idle)'
  BY DEF Good, Idle, Updates

\* Steps that only read.
LEMMA ReadStep ==
  ASSUME ConfigInv, NEW r \in Requests, NEW q \in RequestStates, Become(r, q), Good(r, q)',
         UNCHANGED <<apps, domains, secrets, locked, writes>>
  PROVE  ConfigInv'
  <1>1. /\ request' \in [Requests -> RequestStates] /\ request'[r] = q
        /\ \A s \in Requests \ {r} : request'[s] = request[s]
    BY BecomeTypes DEF ConfigInv, TypeOK
  <1>2. TypeOK'
    BY <1>1, ReadTypes DEF ConfigInv
  <1> QED
    BY <1>1, <1>2, RowsKept

LEMMA LoadStep ==
  ASSUME ConfigInv, NEW r \in Requests, NEW a \in Apps, NEW config \in Configs,
         LoadApplication(r, a, config)
  PROVE  ConfigInv'
  <1> DEFINE q == [op |-> "update", app |-> a, config |-> config, loaded |-> Loaded(apps[a]),
                   stale |-> FALSE]
  <1>1. apps[a].exists /\ apps[a] \in AppRows
    BY Rows DEF LoadApplication, ConfigInv
  <1>2. Loaded(apps[a]) \in LoadedRows
    BY <1>1, LoadTypes
  <1>3. q \in RequestStates
    BY <1>2 DEF RequestStates
  <1>4. Become(r, q) /\ UNCHANGED <<apps, domains, secrets, locked, writes>>
    BY DEF LoadApplication
  <1>5. apps[a].config.domain # NoHostname => DomainsOf(a) # {}
    BY <1>1, Apart DEF AppsHaveRows
  <1>6. ASSUME NEW p, p = q PROVE Good(r, p)'
    <2>1. /\ p.op = "update" /\ p.app = a /\ p.stale = FALSE
          /\ p.loaded = Loaded(apps[a])
      BY <1>6
    <2>2. p.loaded.config = apps[a].config
      BY <2>1 DEF Loaded
    <2>3. apps' = apps /\ DomainsOf(a)' = DomainsOf(a)
      BY <1>4 DEF DomainsOf
    <2> QED
      BY <1>1, <1>5, <2>1, <2>2, <2>3 DEF Good
  <1> HIDE DEF q
  <1>7. PICK p \in RequestStates : p = q
    BY <1>3
  <1> QED
    BY <1>4, <1>6, <1>7, ReadStep

LEMMA FindDomainStep ==
  ASSUME ConfigInv, NEW r \in Requests, FindDomain(r)
  PROVE  ConfigInv'
  <1>1. request[r] \in Updating /\ request[r].op = "flushed" /\ Good(r, request[r])
    BY Rows, Kinds, Apart DEF FindDomain, ConfigInv
  <1>2. PICK h \in Hostnames \cup {NoHostname} :
            /\ h \in IF DomainsOf(request[r].app) = {} THEN {NoHostname}
                     ELSE DomainsOf(request[r].app)
            /\ Become(r, [op |-> "sync", app |-> request[r].app, config |-> request[r].config,
                          loaded |-> request[r].loaded, stale |-> request[r].stale,
                          found |-> h])
    BY DEF FindDomain
  <1> DEFINE q == [op |-> "sync", app |-> request[r].app, config |-> request[r].config,
                   loaded |-> request[r].loaded, stale |-> request[r].stale, found |-> h]
  <1>3. q \in RequestStates
    BY <1>1 DEF RequestStates, Updating
  <1>4. Become(r, q) /\ UNCHANGED <<apps, domains, secrets, locked, writes>>
    BY <1>2 DEF FindDomain
  <1>5. ASSUME NEW p, p = q PROVE Good(r, p)'
    <2>1. /\ p.op = "sync" /\ p.app = request[r].app /\ p.stale = request[r].stale
          /\ p.loaded = request[r].loaded /\ p.config = request[r].config /\ p.found = h
      BY <1>5
    <2>2. \A a : DomainsOf(a)' = DomainsOf(a)
      BY <1>4 DEF DomainsOf
    <2>3. apps' = apps /\ domains' = domains /\ locked' = locked
      BY <1>4
    <2>4. h = NoHostname <=> DomainsOf(p.app) = {}
      BY <1>2, <2>1, ConfigConstants DEF DomainsOf
    <2>5. h # NoHostname => domains[h] = p.app
      BY <1>2, <2>1 DEF DomainsOf
    <2>6. /\ apps[p.app].exists /\ (~p.stale => p.loaded = Loaded(apps[p.app]))
          /\ p.loaded.config.domain # NoHostname => DomainsOf(p.app) # {}
          /\ p.config.domain # NoHostname /\ DomainsOf(p.app) = {} => locked[p.app] = r
      BY <1>1, <2>1 DEF Good, Updates
    <2> QED
      BY <2>1, <2>2, <2>3, <2>4, <2>5, <2>6 DEF Good
  <1> HIDE DEF q
  <1>6. PICK p \in RequestStates : p = q
    BY <1>3
  <1> QED
    BY <1>4, <1>5, <1>6, ReadStep

LEMMA CheckBoundsStep ==
  ASSUME ConfigInv, NEW r \in Requests, NEW a \in Apps, NEW target \in Targets,
         CheckBounds(r, a, target)
  PROVE  ConfigInv'
  <1> DEFINE q == [op |-> "scale", app |-> a, target |-> target, loaded |-> Loaded(apps[a]),
                   stale |-> FALSE]
  <1>1. apps[a].exists /\ apps[a] \in AppRows
    BY Rows DEF CheckBounds, ConfigInv
  <1>2. Loaded(apps[a]) \in LoadedRows
    BY <1>1, LoadTypes
  <1>3. q \in RequestStates
    BY <1>2 DEF RequestStates
  <1>4. /\ Become(r, q) /\ UNCHANGED <<apps, domains, secrets, locked, writes>>
        /\ apps[a].min <= target /\ target <= apps[a].max
    BY DEF CheckBounds
  <1>5. ASSUME NEW p, p = q PROVE Good(r, p)'
    <2>1. /\ p.op = "scale" /\ p.app = a /\ p.stale = FALSE /\ p.target = target
          /\ p.loaded = Loaded(apps[a])
      BY <1>5
    <2>2. p.loaded.min = apps[a].min /\ p.loaded.max = apps[a].max
      BY <2>1 DEF Loaded
    <2> QED
      BY <1>1, <1>4, <2>1, <2>2 DEF Good, Updates
  <1> HIDE DEF q
  <1>6. PICK p \in RequestStates : p = q
    BY <1>3
  <1> QED
    BY <1>4, <1>5, <1>6, ReadStep

\* The other steps that leave applications and domains alone.
LEMMA QuietSteps ==
  ASSUME ConfigInv, NEW r \in Requests
  PROVE  /\ \A config \in Configs, slug \in Slugs : FindSlug(r, config, slug) => ConfigInv'
         /\ RefuseCreate(r) => ConfigInv'
         /\ \A op \in {"set_secret", "delete_secret"}, a \in Apps, k \in Keys :
               FindSecret(r, op, a, k) => ConfigInv'
         /\ Validate(r) => ConfigInv'
         /\ FlushApplication(r) => ConfigInv'
         /\ RefuseUpdate(r) => ConfigInv'
         /\ SetSecret(r) \/ DeleteSecret(r) => ConfigInv'
  <1>0. /\ TypeOK /\ request[r] \in RequestStates /\ Idle \in RequestStates
        /\ request \in [Requests -> RequestStates]
    BY DEF ConfigInv, TypeOK, RequestStates
  <1>1. ASSUME NEW config \in Configs, NEW slug \in Slugs, FindSlug(r, config, slug)
        PROVE  ConfigInv'
    <2> DEFINE q == [op |-> "create", slug |-> slug, config |-> config]
    <2>1. q \in RequestStates /\ q.op = "create"
      BY DEF RequestStates
    <2>2. Become(r, q) /\ UNCHANGED <<apps, domains, secrets, locked, writes>>
      BY <1>1 DEF FindSlug
    <2> HIDE DEF q
    <2>3. PICK p \in RequestStates : p = q
      BY <2>1
    <2>4. Good(r, p)'
      BY <2>1, <2>3 DEF Good, Updates
    <2> QED
      BY <2>2, <2>3, <2>4, ReadStep
  <1>2. CASE RefuseCreate(r)
    BY <1>0, <1>2, IdleIsGood, ReadStep DEF RefuseCreate
  <1>3. ASSUME NEW op \in {"set_secret", "delete_secret"}, NEW a \in Apps, NEW k \in Keys,
               FindSecret(r, op, a, k)
        PROVE  ConfigInv'
    <2> DEFINE q == [op |-> op, app |-> a, key |-> k, found |-> <<a, k>> \in secrets]
    <2>1. q \in RequestStates /\ q.op = op
      BY DEF RequestStates
    <2>2. Become(r, q) /\ UNCHANGED <<apps, domains, secrets, locked, writes>>
      BY <1>3 DEF FindSecret
    <2> HIDE DEF q
    <2>3. PICK p \in RequestStates : p = q
      BY <2>1
    <2>4. Good(r, p)'
      BY <2>1, <2>3 DEF Good, Updates
    <2> QED
      BY <2>2, <2>3, <2>4, ReadStep
  <1>4. CASE Validate(r)
    <2>1. PICK q \in RequestStates : Become(r, q) /\ (q = Idle \/ Judged(q))
      BY <1>4, ValidateStep DEF ConfigInv
    <2>2. UNCHANGED <<apps, domains, secrets, locked, writes>>
      BY <1>4, ValidateStep DEF ConfigInv
    <2>3. Good(r, q)'
      BY <2>1, IdleIsGood DEF Judged, Good, Updates
    <2> QED
      BY <2>1, <2>2, <2>3, ReadStep
  <1>5. CASE FlushApplication(r)
    <2> DEFINE q == request[r]
    <2>1. q \in Updating /\ q.op = "update" /\ Good(r, q)
      BY <1>0, <1>5, Kinds, Apart DEF FlushApplication
    <2>2. /\ q.app \in Apps /\ q.config \in Configs
      BY <2>1 DEF Updating
    <2>3. /\ UNCHANGED <<apps, domains>>
          /\ Become(r, [q EXCEPT !.op = "flushed"])
          /\ Assigned(q) # q.loaded => locked[q.app] = Nobody
          /\ locked' = IF Assigned(q) = q.loaded THEN locked ELSE [locked EXCEPT ![q.app] = r]
          /\ locked \in [Apps -> Requests \cup {Nobody}]
      BY <1>5 DEF FlushApplication, ConfigInv, TypeOK
    <2>4. \A s \in Requests \ {r}, a \in Apps : locked[a] = s => locked'[a] = s
      BY <2>2, <2>3, ConfigConstants
    <2>5. [q EXCEPT !.op = "flushed"] \in Updating
      BY <2>1 DEF Updating
    <2>6. PICK p \in Updating : p = [q EXCEPT !.op = "flushed"]
      BY <2>5
    <2>7. /\ p.op = "flushed" /\ p.app = q.app /\ p.config = q.config /\ p.loaded = q.loaded
          /\ p.stale = q.stale
      BY <2>1, <2>6 DEF Updating
    <2>8. p \in RequestStates
      BY <2>7 DEF Updating, RequestStates
    <2>9. request'[r] = p /\ \A s \in Requests \ {r} : request'[s] = request[s]
      BY <1>0, <2>3, <2>6, <2>8, BecomeTypes
    <2>10. q.loaded.config.domain # NoHostname => DomainsOf(q.app) # {}
      BY <2>1 DEF Good, Updates
    <2>11. q.config.domain # NoHostname /\ DomainsOf(q.app) = {} => locked'[q.app] = r
      <3>1. Assigned(q) = q.loaded => q.loaded.config = q.config
        BY DEF Assigned
      <3> QED
        BY <2>2, <2>3, <2>10, <3>1
    <2>12. Good(r, p)'
      <3>1. \A a : DomainsOf(a)' = DomainsOf(a)
        BY <2>3 DEF DomainsOf
      <3>2. apps' = apps
        BY <2>3
      <3> HIDE DEF q
      <3> QED
        BY <2>1, <2>7, <2>10, <2>11, <3>1, <3>2 DEF Good, Updates
    <2>13. TypeOK'
      BY <1>0, <1>5, WriteTypes
    <2> QED
      BY <2>3, <2>4, <2>9, <2>12, <2>13, RowsKept
  <1>6. CASE RefuseUpdate(r)
    <2>1. /\ TypeOK' /\ UNCHANGED <<apps, domains>> /\ request'[r] = Idle
          /\ \A s \in Requests \ {r} : request'[s] = request[s]
      BY <1>0, <1>6, WriteTypes, BecomeTypes DEF RefuseUpdate
    <2>2. \A s \in Requests \ {r}, a \in Apps : locked[a] = s => locked'[a] = s
      BY <1>6 DEF RefuseUpdate, Unlocked
    <2> QED
      BY <2>1, <2>2, IdleIsGood, RowsKept
  <1>7. CASE SetSecret(r) \/ DeleteSecret(r)
    <2>1. /\ TypeOK' /\ UNCHANGED <<apps, domains, locked>> /\ request'[r] = Idle
          /\ \A s \in Requests \ {r} : request'[s] = request[s]
      BY <1>0, <1>7, WriteTypes, BecomeTypes DEF SetSecret, DeleteSecret
    <2> QED
      BY <2>1, IdleIsGood, RowsKept
  <1> QED
    BY <1>1, <1>2, <1>3, <1>4, <1>5, <1>6, <1>7

----------------------------------------------------------------------------
(* Steps that write an application.                                        *)

\* A write to application a keeps the invariant of another request s, which is
\* stale from now on if it works on a.
LEMMA OthersKeepGood ==
  ASSUME TypeOK, NEW a \in Apps, NEW s \in Requests, Good(s, request[s]),
         IF request[s].op \in Updates \cup {"scale"} /\ request[s].app = a
         THEN request'[s] = [request[s] EXCEPT !.stale = TRUE]
         ELSE request'[s] = request[s],
         apps'[a].exists,
         \A b \in Apps \ {a} : apps'[b] = apps[b] /\ DomainsOf(b)' = DomainsOf(b),
         \A b \in Apps : locked[b] = s => locked'[b] = s,
         DomainsOf(a) # {} => DomainsOf(a)' # {},
         request[s].op = "sync" /\ request[s].app = a /\ request[s].config.domain # NoHostname
            /\ request[s].found = NoHostname => DomainsOf(a)' = {}
  PROVE  Good(s, request[s])'
  <1> DEFINE p == request[s]
  <1>0. p \in RequestStates
    BY Rows
  <1>1. CASE p.op \notin Updates \cup {"scale"}
    <2>1. request'[s] = p
      BY <1>1
    <2> HIDE DEF p
    <2> QED
      BY <1>1, <2>1 DEF Good, Updates, p
  <1>2. CASE p.op \in Updates \cup {"scale"} /\ p.app = a
    <2>1. p \in Updating \/ p \in Syncing \/ p \in Scaling
      BY <1>0, <1>2, Kinds DEF Updates
    <2>2. PICK q : q = [p EXCEPT !.stale = TRUE]
      OBVIOUS
    <2>3. /\ q.op = p.op /\ q.app = a /\ q.stale = TRUE /\ q.loaded = p.loaded
          /\ q.op \in Updates => q.config = p.config
          /\ q.op = "sync" => q.found = p.found
          /\ q.op = "scale" => q.target = p.target
      BY <1>2, <2>1, <2>2 DEF Updating, Syncing, Scaling, Updates
    <2>4. request'[s] = q
      BY <1>2, <2>2
    <2>5. /\ q.op = "scale" => q.loaded.min <= q.target /\ q.target <= q.loaded.max
          /\ q.op \in Updates => (q.loaded.config.domain # NoHostname => DomainsOf(a) # {})
          /\ q.op = "flushed" /\ q.config.domain # NoHostname /\ DomainsOf(a) = {} =>
                locked[a] = s
          /\ q.op = "sync" /\ q.config.domain # NoHostname /\ q.found = NoHostname =>
                locked[a] = s
          /\ q.op = "sync" /\ q.found # NoHostname => DomainsOf(a) # {}
      BY <1>2, <2>3 DEF Good, Updates
    <2>6. q.op = "sync" /\ q.config.domain # NoHostname /\ q.found = NoHostname =>
             DomainsOf(a)' = {}
      BY <1>2, <2>3 DEF Updates
    <2>7. Good(s, q)'
      BY <1>2, <2>3, <2>5, <2>6 DEF Good, Updates
    <2> QED
      BY <2>4, <2>7
  <1>3. CASE p.op \in Updates \cup {"scale"} /\ p.app # a
    <2>1. p \in Updating \/ p \in Syncing \/ p \in Scaling
      BY <1>0, <1>3, Kinds DEF Updates
    <2>2. PICK b \in Apps : b = p.app
      BY <2>1 DEF Updating, Syncing, Scaling
    <2>3. request'[s] = p /\ Good(s, p)
      BY <1>3
    <2>4. /\ apps'[b] = apps[b] /\ DomainsOf(b)' = DomainsOf(b)
          /\ locked[b] = s => locked'[b] = s
      BY <1>3, <2>2
    <2>5. p.op = "sync" /\ p.found # NoHostname => p.found \in Hostnames
      BY <1>0, Kinds DEF Syncing
    <2>6. p.op = "sync" /\ p.found # NoHostname /\ domains[p.found] = b =>
             domains'[p.found] = b
      BY <2>4, <2>5 DEF DomainsOf
    <2>7. PICK q : q = p
      OBVIOUS
    <2>8. Good(s, q)'
      BY <1>3, <2>2, <2>3, <2>4, <2>6, <2>7 DEF Good, Updates
    <2> QED
      BY <2>3, <2>7, <2>8
  <1> QED
    BY <1>1, <1>2, <1>3

LEMMA ScaleStep ==
  ASSUME ConfigInv, NEW r \in Requests, StartScale(r)
  PROVE  ConfigInv'
  <1> DEFINE q == request[r]
  <1>0. TypeOK /\ LoadedIsCurrent
    BY DEF ConfigInv
  <1>a. PICK a \in Apps : a = q.app
    BY <1>0, ScaledRow DEF Scaling
  <1>1. q \in Scaling /\ q.op = "scale" /\ apps[a].exists
    BY ZenonT(30), <1>0, <1>a, ScaledRow DEF StartScale
  <1>2. PICK row \in AppRows :
            /\ apps' = [apps EXCEPT ![a] = row]
            /\ row.slug = apps[a].slug
            /\ row.overlapped = (apps[a].overlapped \/ q.stale)
            /\ row.config = apps[a].config
            /\ row.min = apps[a].min /\ row.max = apps[a].max
            /\ ~q.stale => row.desired = q.target
    BY <1>0, <1>a, ScaledRow
  <1>3. a \in Apps /\ q.stale \in BOOLEAN
    BY <1>1 DEF Scaling
  <1>4. UNCHANGED <<domains, secrets, locked>> /\ Finish(r, a) /\ writes' = writes + 1
    BY <1>a DEF StartScale
  <1> HIDE DEF q
  <1>5. TypeOK'
    <2>1. /\ domains \in [Hostnames -> Apps \cup {Nobody}]
          /\ locked \in [Apps -> Requests \cup {Nobody}]
      BY <1>0 DEF TypeOK
    <2> QED
      BY ZenonT(30), <1>0, <1>1, <1>2, <1>3, <1>4, <2>1, RowTypes
  <1>6. \A b : DomainsOf(b)' = DomainsOf(b)
    BY <1>4 DEF DomainsOf
  <1>7. /\ apps'[a] = row /\ row.exists
        /\ \A b \in Apps \ {a} : apps'[b] = apps[b]
    BY ZenonT(30), <1>0, <1>2, <1>3 DEF TypeOK, AppRows
  <1>8. HostnamesApart'
    BY <1>4 DEF ConfigInv, HostnamesApart
  <1>9. AppsHaveRows'
    BY <1>1, <1>2, <1>3, <1>6, <1>7, Apart DEF AppsHaveRows
  <1>10. HostnameIsOwn'
    <2>1. ~row.overlapped /\ row.config.domain # NoHostname => domains[row.config.domain] = a
      BY ZenonT(30), <1>1, <1>2, <1>3 DEF ConfigInv, HostnameIsOwn
    <2> QED
      BY <1>4, <1>7, <2>1 DEF ConfigInv, HostnameIsOwn
  <1>11. BoundsFollowConfig'
    <2>1. Good(r, q)
      BY Apart DEF q
    <2>2. ~q.stale => /\ q.loaded.min = apps[a].min /\ q.loaded.max = apps[a].max
                      /\ q.loaded.min <= q.target /\ q.target <= q.loaded.max
      BY <1>a, <1>1, <2>1 DEF Good, Loaded
    <2>3. ~row.overlapped => /\ row.min = row.config.min /\ row.max = row.config.max
                             /\ row.min <= row.desired /\ row.desired <= row.max
      BY ZenonT(30), <1>1, <1>2, <1>3, <2>2 DEF ConfigInv, BoundsFollowConfig
    <2> QED
      BY <1>7, <2>3 DEF ConfigInv, BoundsFollowConfig
  <1>12. ASSUME NEW s \in Requests PROVE Good(s, request[s])'
    <2>1. request \in [Requests -> RequestStates]
      BY <1>0 DEF TypeOK
    <2>2. CASE s = r
      BY <1>3, <1>4, <2>1, <2>2, FinishTypes, IdleIsGood
    <2>3. CASE s # r
      <3>1. IF request[s].op \in Updates \cup {"scale"} /\ request[s].app = a
            THEN request'[s] = [request[s] EXCEPT !.stale = TRUE]
            ELSE request'[s] = request[s]
        BY <1>3, <1>4, <2>1, <2>3, FinishTypes
      <3>2. Good(s, request[s])
        BY Apart
      <3>3. request[s].op = "sync" /\ request[s].app = a
               /\ request[s].config.domain # NoHostname /\ request[s].found = NoHostname =>
               DomainsOf(a)' = {}
        BY <1>6, <3>2 DEF Good
      <3> QED
        BY <1>0, <1>3, <1>4, <1>6, <1>7, <3>1, <3>2, <3>3, OthersKeepGood
    <2> QED
      BY <2>2, <2>3
  <1> QED
    BY <1>5, <1>8, <1>9, <1>10, <1>11, <1>12, Together

LEMMA CreateStep ==
  ASSUME ConfigInv, NEW r \in Requests, NEW a \in Apps, CreateApplication(r, a)
  PROVE  ConfigInv'
  <1> DEFINE q == request[r]
             row == [exists |-> TRUE, slug |-> q.slug, min |-> q.config.min,
                     max |-> q.config.max, desired |-> q.config.min, config |-> q.config,
                     overlapped |-> FALSE]
  <1>0. /\ TypeOK /\ TypeOK' /\ Idle \in RequestStates
        /\ request \in [Requests -> RequestStates]
    BY ZenonT(30), WriteTypes DEF ConfigInv, TypeOK, RequestStates
  <1>1. q \in [op : {"create"}, slug : Slugs, config : Configs]
    BY <1>0, Rows, Kinds DEF CreateApplication
  <1>2. PICK c \in Configs : c = q.config
    BY <1>1
  <1>3. /\ apps' = [apps EXCEPT ![a] = row] /\ ~apps[a].exists /\ locked' = locked
        /\ domains' = [h \in Hostnames |-> IF h = c.domain THEN a ELSE domains[h]]
        /\ c.domain # NoHostname => domains[c.domain] = Nobody
        /\ Become(r, Idle)
    BY <1>2 DEF CreateApplication, CreateConflicts
  <1>4. /\ row.exists /\ row.config = c /\ row.min = c.min /\ row.max = c.max
        /\ row.desired = c.min
    BY <1>2
  <1> HIDE DEF row, q
  <1>5. /\ apps'[a] = row
        /\ \A b \in Apps \ {a} : apps'[b] = apps[b]
    BY <1>0, <1>3 DEF TypeOK
  <1>6. c.domain # NoHostname => c.domain \in Hostnames /\ domains'[c.domain] = a
    BY <1>3, ConfigConstants
  <1>7. \A h \in Hostnames : domains[h] # a
    BY <1>0, <1>3, ConfigConstants DEF TypeOK
  <1>8. \A b \in Apps \ {a} : DomainsOf(b)' = DomainsOf(b)
    BY <1>3, ConfigConstants DEF DomainsOf
  <1>9. HostnamesApart'
    <2>1. \A h \in Hostnames : domains'[h] = a <=> h = c.domain
      BY <1>3, <1>7
    <2>2. \A h \in Hostnames : domains'[h] # a => domains'[h] = domains[h]
      BY <1>3
    <2> QED
      BY <2>1, <2>2 DEF ConfigInv, HostnamesApart
  <1>10. AppsHaveRows'
    <2>1. c.domain # NoHostname => DomainsOf(a)' # {}
      BY <1>6 DEF DomainsOf
    <2> QED
      BY <1>4, <1>5, <1>8, <2>1, Apart DEF AppsHaveRows
  <1>11. HostnameIsOwn'
    <2>1. \A h \in Hostnames : domains[h] \in Apps => domains'[h] = domains[h]
      BY <1>3, ConfigConstants
    <2>2. ASSUME NEW b \in Apps \ {a}, apps[b].exists, apps[b].config.domain # NoHostname
          PROVE  apps[b].config.domain \in Hostnames
      <3>1. apps[b] \in AppRows
        BY <1>0, <2>2, Rows
      <3>2. apps[b].config \in Configs
        BY ZenonT(30), <3>1 DEF AppRows
      <3> QED
        BY <2>2, <3>2, ConfigConstants
    <2> QED
      BY <1>4, <1>5, <1>6, <2>1, <2>2 DEF ConfigInv, HostnameIsOwn
  <1>12. BoundsFollowConfig'
    <2>1. c.min \in Nat /\ c.max \in Nat /\ c.min <= c.max
      BY ConfigConstants
    <2> QED
      BY <1>4, <1>5, <2>1 DEF ConfigInv, BoundsFollowConfig
  <1>13. ASSUME NEW s \in Requests PROVE Good(s, request[s])'
    <2>1. CASE s = r
      BY <1>0, <1>3, <2>1, BecomeTypes, IdleIsGood
    <2>2. CASE s # r
      <3>1. request'[s] = request[s]
        BY <1>0, <1>3, <2>2, BecomeTypes
      <3>2. Good(s, request[s])
        BY Apart
      <3>3. request[s].op \in Updates \cup {"scale"} => request[s].app # a
        BY <1>3, <3>2 DEF Good
      <3>4. DomainsOf(a) = {}
        BY <1>7 DEF DomainsOf
      <3> QED
        BY ZenonT(30), <1>0, <1>3, <1>4, <1>5, <1>8, <3>1, <3>2, <3>3, <3>4, OthersKeepGood DEF Updates
    <2> QED
      BY <2>1, <2>2
  <1> QED
    BY <1>0, <1>9, <1>10, <1>11, <1>12, <1>13, Together

\* What an update does to the Domain rows.
LEMMA SyncedRows ==
  ASSUME ConfigInv, NEW r \in Requests, NEW q, q = request[r], q.op = "sync",
         ~HostnameTaken(q), NEW D, D = SyncedDomain(q)
  PROVE  /\ D \in [Hostnames -> Apps \cup {Nobody}]
         /\ \A h \in Hostnames : D[h] \in {q.app, Nobody, domains[h]}
         /\ \A h \in Hostnames, b \in Apps \ {q.app} : D[h] = b <=> domains[h] = b
         /\ \A h, k \in Hostnames : D[h] = D[k] /\ D[h] # Nobody => h = k
         /\ DomainsOf(q.app) # {} => \E h \in Hostnames : D[h] = q.app
         /\ q.config.domain # NoHostname => \E h \in Hostnames : D[h] = q.app
         /\ ~q.stale /\ q.config.domain # NoHostname => D[q.config.domain] = q.app
         /\ D # domains => DomainsOf(q.app) # {} \/ locked[q.app] = r
  <1> DEFINE c == q.config.domain
  <1>1. q \in Syncing /\ Good(r, q)
    BY ZenonT(30), Rows, Kinds, Apart DEF ConfigInv
  <1>2. /\ q.app \in Apps /\ q.found \in Hostnames \cup {NoHostname}
        /\ c \in Hostnames \cup {NoHostname}
    BY <1>1, ConfigConstants DEF Syncing
  <1>3. /\ domains \in [Hostnames -> Apps \cup {Nobody}]
        /\ \A h, k \in Hostnames : domains[h] = domains[k] /\ domains[h] # Nobody => h = k
    BY DEF ConfigInv, TypeOK, HostnamesApart
  <1>4. /\ q.found # NoHostname => DomainsOf(q.app) # {}
        /\ q.found # NoHostname /\ ~q.stale => domains[q.found] = q.app
        /\ c # NoHostname /\ q.found = NoHostname => locked[q.app] = r /\ DomainsOf(q.app) = {}
    BY <1>1 DEF Good
  <1>5. CASE c \in {NoHostname, q.found}
    <2>1. D = domains
      BY <1>5 DEF SyncedDomain
    <2>2. DomainsOf(q.app) # {} => \E h \in Hostnames : D[h] = q.app
      BY <2>1 DEF DomainsOf
    <2> QED
      BY <1>3, <1>4, <1>5, <2>1, <2>2
  <1>6. CASE c \notin {NoHostname, q.found}
    <2>1. c \in Hostnames /\ domains[c] \in {Nobody, q.app} /\ Nobody \notin Apps
      BY <1>2, <1>6, ConfigConstants DEF HostnameTaken
    <2>2. D = [h \in Hostnames |->
                 IF h = c THEN q.app
                 ELSE IF domains[h] = q.app /\ q.found # NoHostname THEN Nobody
                 ELSE domains[h]]
      BY <1>6 DEF SyncedDomain
    <2>3. D[c] = q.app
      BY <2>1, <2>2
    <2>4. \A h \in Hostnames : h # c =>
             D[h] = IF domains[h] = q.app /\ q.found # NoHostname THEN Nobody ELSE domains[h]
      BY <2>2
    <2>5. q.found = NoHostname => \A h \in Hostnames : domains[h] # q.app
      BY <1>4, <1>6 DEF DomainsOf
    <2>6. \A h \in Hostnames : h # c => D[h] # q.app
      BY <1>2, <2>1, <2>4, <2>5
    <2>7. /\ D \in [Hostnames -> Apps \cup {Nobody}]
          /\ \A h \in Hostnames : D[h] \in {q.app, Nobody, domains[h]}
      BY <1>2, <1>3, <2>2
    <2>8. \A h \in Hostnames, b \in Apps \ {q.app} : D[h] = b <=> domains[h] = b
      BY <1>2, <2>1, <2>3, <2>4
    <2>9. \A h, k \in Hostnames : D[h] = D[k] /\ D[h] # Nobody => h = k
      BY <1>3, <2>3, <2>4, <2>6
    <2> QED
      BY <1>4, <1>6, <2>1, <2>3, <2>7, <2>8, <2>9
  <1> QED
    BY <1>5, <1>6

\* The clamped target lies within the bounds of the configuration.
LEMMA ClampedWithin ==
  ASSUME NEW c \in Configs, NEW n \in Nat
  PROVE  c.min <= ClampedReplicas(n, c) /\ ClampedReplicas(n, c) <= c.max
  <1>1. c.min \in Nat /\ c.max \in Nat /\ c.min <= c.max
    BY ConfigConstants
  <1> QED
    BY <1>1 DEF ClampedReplicas

LEMMA UpdateStep ==
  ASSUME ConfigInv, NEW r \in Requests, UpdateApplication(r)
  PROVE  ConfigInv'
  <1>0. /\ TypeOK /\ LoadedIsCurrent /\ request \in [Requests -> RequestStates]
    BY DEF ConfigInv, TypeOK
  <1>1. PICK q \in Syncing : q = request[r]
    BY <1>0, UpdatedRow
  <1>2. PICK a \in Apps : a = q.app
    BY <1>1 DEF Syncing
  <1>3. /\ q.stale \in BOOLEAN /\ q.config \in Configs /\ q.loaded \in LoadedRows
        /\ q.op = "sync" /\ apps[a].exists /\ apps[a] \in AppRows
    BY <1>0, <1>1, <1>2, UpdatedRow, Rows DEF Syncing
  <1>4. PICK row \in AppRows :
            /\ apps' = [apps EXCEPT ![a] = row]
            /\ row.slug = apps[a].slug
            /\ row.overlapped = (apps[a].overlapped \/ q.stale)
            /\ row.config \in {apps[a].config, q.config}
            /\ ~q.stale => Loaded(row) = Assigned(q)
    BY <1>0, <1>1, <1>2, UpdatedRow
  <1>5. /\ ~HostnameTaken(q) /\ domains' = SyncedDomain(q) /\ locked' = Unlocked(r)
        /\ Finish(r, a) /\ writes' = writes + 1 /\ UNCHANGED secrets
    BY ZenonT(30), <1>1, <1>2 DEF UpdateApplication
  <1>6. /\ domains' \in [Hostnames -> Apps \cup {Nobody}]
        /\ \A h \in Hostnames : domains'[h] \in {a, Nobody, domains[h]}
        /\ \A h \in Hostnames, b \in Apps \ {a} : domains'[h] = b <=> domains[h] = b
        /\ \A h, k \in Hostnames : domains'[h] = domains'[k] /\ domains'[h] # Nobody => h = k
        /\ DomainsOf(a) # {} => \E h \in Hostnames : domains'[h] = a
        /\ q.config.domain # NoHostname => \E h \in Hostnames : domains'[h] = a
        /\ ~q.stale /\ q.config.domain # NoHostname => domains'[q.config.domain] = a
        /\ domains' # domains => DomainsOf(a) # {} \/ locked[a] = r
    BY <1>1, <1>2, <1>3, <1>5, SyncedRows
  <1>7. TypeOK'
    <2>1. locked' \in [Apps -> Requests \cup {Nobody}]
      BY <1>0, <1>5 DEF TypeOK, Unlocked
    <2> QED
      BY ZenonT(30), <1>0, <1>3, <1>4, <1>5, <1>6, <2>1, RowTypes
  <1>8. /\ apps'[a] = row /\ row.exists
        /\ \A b \in Apps \ {a} : apps'[b] = apps[b]
    BY ZenonT(30), <1>0, <1>4 DEF TypeOK, AppRows
  <1>9. /\ \A b \in Apps \ {a} : DomainsOf(b)' = DomainsOf(b)
        /\ DomainsOf(a) # {} => DomainsOf(a)' # {}
        /\ q.config.domain # NoHostname => DomainsOf(a)' # {}
        /\ domains' = domains => DomainsOf(a)' = DomainsOf(a)
    BY <1>6 DEF DomainsOf
  <1>10. HostnamesApart'
    BY <1>6 DEF HostnamesApart
  <1>11. AppsHaveRows'
    <2>1. row.config.domain # NoHostname => DomainsOf(a)' # {}
      BY <1>3, <1>4, <1>9, Apart DEF AppsHaveRows
    <2> QED
      BY <1>8, <1>9, <2>1, Apart DEF AppsHaveRows
  <1>12. ASSUME ~q.stale
         PROVE  /\ row.config = q.config
                /\ row.min = q.config.min /\ row.max = q.config.max
                /\ row.desired = ClampedReplicas(q.loaded.desired, q.config)
    BY <1>4, <1>12 DEF Loaded, Assigned
  <1>13. ~row.overlapped => ~q.stale
    BY ZenonT(30), <1>4
  <1>14. HostnameIsOwn'
    <2>1. ASSUME NEW b \in Apps \ {a}, apps[b].exists, apps[b].config.domain # NoHostname
          PROVE  apps[b].config.domain \in Hostnames
      <3>1. apps[b] \in AppRows
        BY <1>0, <2>1, Rows
      <3>2. apps[b].config \in Configs
        BY ZenonT(30), <3>1 DEF AppRows
      <3> QED
        BY <2>1, <3>2, ConfigConstants
    <2>2. ~row.overlapped /\ row.config.domain # NoHostname => domains'[row.config.domain] = a
      BY <1>6, <1>12, <1>13
    <2> QED
      BY <1>6, <1>8, <2>1, <2>2 DEF ConfigInv, HostnameIsOwn
  <1>15. BoundsFollowConfig'
    <2>1. q.loaded.desired \in Nat
      BY ZenonT(30), <1>3, ConfigConstants DEF LoadedRows, Counts
    <2>2. ~row.overlapped => /\ row.min = row.config.min /\ row.max = row.config.max
                             /\ row.min <= row.desired /\ row.desired <= row.max
      BY <1>3, <1>12, <1>13, <2>1, ClampedWithin
    <2> QED
      BY <1>8, <2>2 DEF ConfigInv, BoundsFollowConfig
  <1>16. ASSUME NEW s \in Requests PROVE Good(s, request[s])'
    <2>1. CASE s = r
      BY <1>0, <1>5, <2>1, FinishTypes, IdleIsGood
    <2>2. CASE s # r
      <3>1. IF request[s].op \in Updates \cup {"scale"} /\ request[s].app = a
            THEN request'[s] = [request[s] EXCEPT !.stale = TRUE]
            ELSE request'[s] = request[s]
        BY <1>0, <1>5, <2>2, FinishTypes
      <3>2. Good(s, request[s])
        BY Apart
      <3>3. \A b \in Apps : locked[b] = s => locked'[b] = s
        BY <1>5, <2>2 DEF Unlocked
      <3>4. request[s].op = "sync" /\ request[s].app = a
               /\ request[s].config.domain # NoHostname /\ request[s].found = NoHostname =>
               DomainsOf(a)' = {}
        <4>1. SUFFICES ASSUME locked[a] = s, DomainsOf(a) = {} PROVE DomainsOf(a)' = {}
          BY <3>2 DEF Good
        <4> QED
          BY <1>6, <1>9, <2>2, <4>1
      <3> QED
        BY <1>0, <1>8, <1>9, <3>1, <3>2, <3>3, <3>4, OthersKeepGood
    <2> QED
      BY <2>1, <2>2
  <1> QED
    BY <1>7, <1>10, <1>11, <1>14, <1>15, <1>16, Together

----------------------------------------------------------------------------

\* ConfigInv is inductive: no step of any request, of whichever route and
\* however requests overlap, breaks it.
THEOREM Invariance == Spec => []ConfigInv
  <1>1. Init => ConfigInv
    <2> SUFFICES ASSUME Init PROVE ConfigInv
      OBVIOUS
    <2>1. \A r \in Requests : request[r] = Idle
      BY DEF Init
    <2>2. \A a \in Apps : apps[a] = NoApp /\ ~apps[a].exists
      BY DEF Init, NoApp
    <2>3. \A h \in Hostnames : domains[h] = Nobody
      BY DEF Init
    <2>4. TypeOK
      BY <2>2, <2>3 DEF Init, TypeOK, RequestStates
    <2>5. \A r \in Requests : request[r].op = "idle"
      BY <2>1 DEF Idle
    <2>6. LoadedIsCurrent /\ InsertIsLocked /\ FoundIsOwn /\ UnsoundIsError
      BY <2>5 DEF LoadedIsCurrent, InsertIsLocked, FoundIsOwn, UnsoundIsError, Updates
    <2>7. HostnamesApart /\ DomainHasRow /\ BoundsFollowConfig /\ HostnameIsOwn
      BY <2>2, <2>3, <2>5 DEF HostnamesApart, DomainHasRow, BoundsFollowConfig, HostnameIsOwn,
                              Updates
    <2> QED
      BY <2>4, <2>6, <2>7 DEF ConfigInv
  <1>2. ConfigInv /\ [Next]_vars => ConfigInv'
    <2> SUFFICES ASSUME ConfigInv, [Next]_vars PROVE ConfigInv'
      OBVIOUS
    <2>1. CASE UNCHANGED vars
      <3>1. /\ apps' = apps /\ domains' = domains /\ secrets' = secrets /\ locked' = locked
            /\ request' = request /\ writes' = writes
        BY <2>1 DEF vars
      <3>2. \A a : DomainsOf(a)' = DomainsOf(a)
        BY <3>1 DEF DomainsOf
      <3>3. TypeOK' /\ AppsHaveRows'
        BY <3>1, <3>2, Apart DEF ConfigInv, TypeOK, AppsHaveRows
      <3>4. HostnamesApart' /\ BoundsFollowConfig' /\ HostnameIsOwn'
        BY <3>1 DEF ConfigInv, HostnamesApart, BoundsFollowConfig, HostnameIsOwn
      <3>5. ASSUME NEW r \in Requests PROVE Good(r, request[r])'
        <4>1. PICK q : q = request[r]
          OBVIOUS
        <4>2. Good(r, q)
          BY <4>1, Apart
        <4>3. Good(r, q)'
          BY <3>1, <3>2, <4>2 DEF Good
        <4> QED
          BY <3>1, <4>1, <4>3
      <3> QED
        BY <3>3, <3>4, <3>5, Together
    <2>2. ASSUME NEW r \in Requests, Save(r) PROVE ConfigInv'
      BY <2>2, QuietSteps, LoadStep, FindDomainStep, CreateStep, UpdateStep DEF Save
    <2>3. ASSUME NEW r \in Requests, Scale(r) PROVE ConfigInv'
      BY <2>3, CheckBoundsStep, ScaleStep DEF Scale
    <2>4. ASSUME NEW r \in Requests, Secret(r) PROVE ConfigInv'
      BY <2>4, QuietSteps DEF Secret
    <2>5. ASSUME NEW r \in Requests, Validate(r) PROVE ConfigInv'
      BY <2>5, QuietSteps
    <2> QED
      BY <2>1, <2>2, <2>3, <2>4, <2>5 DEF Next
  <1> QED
    BY <1>1, <1>2, PTL DEF Spec

\* update_application and start_scale: the replica columns stay those of the
\* saved healer.yaml and the target stays between them, for any number of
\* applications, unless requests for the application overlapped.
THEOREM BoundsFollow == Spec => []BoundsFollowConfig
  <1>1. ConfigInv => BoundsFollowConfig
    BY DEF ConfigInv
  <1> QED
    BY <1>1, Invariance, PTL

\* _sync_related_rows: however many updates overlap, none of them inserts a
\* second Domain row.
THEOREM OneRow == Spec => []OneDomainRow
  <1>1. ConfigInv => OneDomainRow
    <2> SUFFICES ASSUME ConfigInv, NEW a \in Apps PROVE Cardinality(DomainsOf(a)) <= 1
      BY DEF OneDomainRow
    <2>1. CASE DomainsOf(a) = {}
      BY <2>1, FS_EmptySet
    <2>2. ASSUME NEW h \in DomainsOf(a) PROVE Cardinality(DomainsOf(a)) <= 1
      <3>1. DomainsOf(a) = {h}
        BY <2>2, ConfigConstants DEF DomainsOf, ConfigInv, HostnamesApart
      <3>2. Cardinality({h}) = 1
        BY FS_Singleton
      <3> QED
        BY <3>1, <3>2
    <2> QED
      BY <2>1, <2>2
  <1> QED
    BY <1>1, Invariance, PTL

\* The hostname of the saved healer.yaml is the application's own.
THEOREM OwnHostname == Spec => []HostnameIsOwn
  <1>1. ConfigInv => HostnameIsOwn
    BY DEF ConfigInv
  <1> QED
    BY <1>1, Invariance, PTL

\* validate_application answers ok for a certificate pair that it had checked
\* only if the pair was sound, for certificates of any dates: the Gateway
\* Manager reports an error exactly for the other ones (CertificateVerdict), and
\* the error stays among the issues.
THEOREM UnsoundPairsBlock == Spec => []UnsoundPairBlocks
  <1>1. ConfigInv => UnsoundPairBlocks
    BY DEF ConfigInv, UnsoundIsError, UnsoundPairBlocks, Ok
  <1> QED
    BY <1>1, Invariance, PTL
=============================================================================
