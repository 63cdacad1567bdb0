------------------------- MODULE ApplicationConfig -------------------------
(***************************************************************************)
(* The saved configuration of applications: application_service.py,        *)
(* secret_service.py, app_validation.py, the bounds check of start_scale,  *)
(* and their routes in routes/applications.py.                             *)
(*                                                                         *)
(* Requests overlap (READ COMMITTED, no version check).  SQLAlchemy writes *)
(* the columns that differ from what the request loaded; the first UPDATE  *)
(* of an application locks its row until the commit.  An application's     *)
(* instances and releases are Fleet's subject.                             *)
(***************************************************************************)
EXTENDS Certificates, FiniteSets

CONSTANTS
    Apps,           \* applications that may be created, all of one name
    Hostnames,      \* domain hostnames
    Keys,           \* names of secrets
    GlobalKeys,     \* names of secret_records rows without an application
    Configs,        \* the healer.yaml documents that may be sent
    Targets,        \* replica counts a scale may ask for
    Requests,       \* requests in flight at a time
    MaxWrites       \* bound: no request that writes starts after so many commits

NoHostname == "no hostname"

Nobody == "nobody"

\* What HealerYamlV1 accepts: _range_is_sane.
ASSUME ConfigConstants ==
    /\ Targets \subseteq Nat
    /\ MaxWrites \in Nat
    /\ Configs \subseteq [min : Nat, max : Nat, domain : Hostnames \cup {NoHostname},
                          cert : BOOLEAN, secrets : SUBSET (Keys \cup GlobalKeys)]
    /\ \A c \in Configs : 1 <= c.min /\ c.min <= c.max
    /\ NoHostname \notin Hostnames
    /\ Nobody \notin Apps \cup Requests

VARIABLES
    apps,       \* applications rows
    domains,    \* domains rows: the application a hostname belongs to
    secrets,    \* secret_records rows of an application
    locked,     \* per application: the request whose transaction has the row locked
    request,    \* per request: what it has read so far
    writes      \* commits so far

vars == <<apps, domains, secrets, locked, request, writes>>

----------------------------------------------------------------------------

NoApp == [exists |-> FALSE]

Idle == [op |-> "idle"]

Slugs == 1..Cardinality(Apps)

Counts == Targets \cup {c.min : c \in Configs} \cup {c.max : c \in Configs}

\* overlapped is history, read by no action: a request wrote to the row that
\* had loaded it before another one's commit.
AppRows ==
    [exists : {TRUE}, slug : Slugs, min : Counts, max : Counts, desired : Counts,
     config : Configs, overlapped : BOOLEAN]

LoadedRows == [min : Counts, max : Counts, desired : Counts, config : Configs]

AgentAnswers ==
    {"no_server", "no_agent", "adapter_unsupported", "not_connected", "late", "error",
     "failed_check", "warned", "passed"}

\* stale is history: the application was written since the request loaded it.
\* errors: one of the issues so far is an error (the others do not block).
\* unsound is history: the certificate pair that was checked is not sound.
RequestStates ==
    {Idle}
    \cup [op : {"create"}, slug : Slugs, config : Configs]
    \cup [op : {"update", "flushed"}, app : Apps, config : Configs, loaded : LoadedRows,
          stale : BOOLEAN]
    \cup [op : {"sync"}, app : Apps, config : Configs, loaded : LoadedRows, stale : BOOLEAN,
          found : Hostnames \cup {NoHostname}]
    \cup [op : {"scale"}, app : Apps, target : Targets, loaded : LoadedRows, stale : BOOLEAN]
    \cup [op : {"set_secret", "delete_secret"}, app : Apps, key : Keys, found : BOOLEAN]
    \cup [op : {"certificate"}, cert : BOOLEAN, errors : BOOLEAN]
    \cup [op : {"agent", "answered"}, errors : BOOLEAN, unsound : BOOLEAN]

TypeOK ==
    /\ apps \in [Apps -> AppRows \cup {NoApp}]
    /\ domains \in [Hostnames -> Apps \cup {Nobody}]
    /\ secrets \subseteq Apps \X Keys
    /\ locked \in [Apps -> Requests \cup {Nobody}]
    /\ request \in [Requests -> RequestStates]
    /\ writes \in Nat
    /\ \A a, b \in Apps : a # b /\ apps[a].exists /\ apps[b].exists => apps[a].slug # apps[b].slug
    /\ \A h \in Hostnames : domains[h] # Nobody => apps[domains[h]].exists

Init ==
    /\ apps = [a \in Apps |-> NoApp]
    /\ domains = [h \in Hostnames |-> Nobody]
    /\ secrets = {}
    /\ locked = [a \in Apps |-> Nobody]
    /\ request = [r \in Requests |-> Idle]
    /\ writes = 0

MayWrite(r) == request[r] = Idle /\ writes < MaxWrites

Become(r, state) == request' = [request EXCEPT ![r] = state]

\* Request r commits a write to application a and ends.
Finish(r, a) ==
    request' = [s \in Requests |->
        IF s = r THEN Idle
        ELSE IF request[s].op \in {"update", "flushed", "sync", "scale"} /\ request[s].app = a
             THEN [request[s] EXCEPT !.stale = TRUE]
        ELSE request[s]]

DomainsOf(a) == {h \in Hostnames : domains[h] = a}

SlugsTaken == {apps[a].slug : a \in {b \in Apps : apps[b].exists}}

Loaded(row) == [min |-> row.min, max |-> row.max, desired |-> row.desired, config |-> row.config]

\* The value a column has after an UPDATE that set it to new.
Column(current, loaded, new) == IF new = loaded THEN current ELSE new

----------------------------------------------------------------------------
(* POST /applications                                                      *)

\* _unique_slug: base, base-2, base-3, ...
FindSlug(r, config, slug) ==
    /\ MayWrite(r)
    /\ slug \notin SlugsTaken
    /\ \A n \in 1..(slug - 1) : n \in SlugsTaken
    /\ Become(r, [op |-> "create", slug |-> slug, config |-> config])
    /\ UNCHANGED <<apps, domains, secrets, locked, writes>>

\* The slug or the hostname was taken since FindSlug.
CreateConflicts(q) ==
    q.slug \in SlugsTaken \/ (q.config.domain # NoHostname /\ domains[q.config.domain] # Nobody)

\* IntegrityError: 409, rolled back.
RefuseCreate(r) ==
    /\ request[r].op = "create"
    /\ CreateConflicts(request[r])
    /\ Become(r, Idle)
    /\ UNCHANGED <<apps, domains, secrets, locked, writes>>

CreateApplication(r, a) ==
    LET q == request[r]
    IN /\ q.op = "create"
       /\ ~CreateConflicts(q)
       /\ ~apps[a].exists
       /\ apps' = [apps EXCEPT ![a] =
             [exists |-> TRUE, slug |-> q.slug, min |-> q.config.min, max |-> q.config.max,
              desired |-> q.config.min, config |-> q.config, overlapped |-> FALSE]]
       /\ domains' = [h \in Hostnames |-> IF h = q.config.domain THEN a ELSE domains[h]]
       /\ Become(r, Idle)
       /\ writes' = writes + 1
       /\ UNCHANGED <<secrets, locked>>

----------------------------------------------------------------------------
(* PATCH /applications/{id}: update_application                            *)

LoadApplication(r, a, config) ==
    /\ MayWrite(r)
    /\ apps[a].exists
    /\ Become(r, [op |-> "update", app |-> a, config |-> config, loaded |-> Loaded(apps[a]),
                  stale |-> FALSE])
    /\ UNCHANGED <<apps, domains, secrets, locked, writes>>

\* Faulty variant: the target is left as it is.
UnclampedReplicas(desired, config) == desired

\* The scaling target is kept inside the new bounds.
ClampedReplicas(desired, config) ==
    IF desired < config.min THEN config.min
    ELSE IF desired > config.max THEN config.max ELSE desired

\* The columns as the request sees them once it has assigned them.
Assigned(q) ==
    [min |-> q.config.min, max |-> q.config.max, config |-> q.config,
     desired |-> ClampedReplicas(q.loaded.desired, q.config)]

\* Faulty variant: nothing is flushed before the related rows are read.
FlushLater(r) ==
    LET q == request[r]
    IN /\ q.op = "update"
       /\ Become(r, [q EXCEPT !.op = "flushed"])
       /\ UNCHANGED <<apps, domains, secrets, locked, writes>>

\* The UPDATE, if a column changes, waits for the row and locks it.
FlushApplication(r) ==
    LET q == request[r]
    IN /\ q.op = "update"
       /\ Assigned(q) # q.loaded => locked[q.app] = Nobody
       /\ locked' = IF Assigned(q) = q.loaded THEN locked ELSE [locked EXCEPT ![q.app] = r]
       /\ Become(r, [q EXCEPT !.op = "flushed"])
       /\ UNCHANGED <<apps, domains, secrets, writes>>

\* _sync_related_rows looks for the Domain row.
FindDomain(r) ==
    LET q == request[r]
    IN /\ q.op = "flushed"
       /\ \E h \in Hostnames \cup {NoHostname} :
             /\ h \in IF DomainsOf(q.app) = {} THEN {NoHostname} ELSE DomainsOf(q.app)
             /\ Become(r, [op |-> "sync", app |-> q.app, config |-> q.config,
                           loaded |-> q.loaded, stale |-> q.stale, found |-> h])
       /\ UNCHANGED <<apps, domains, secrets, locked, writes>>

Unlocked(r) == [a \in Apps |-> IF locked[a] = r THEN Nobody ELSE locked[a]]

\* The unique hostname refuses the row: IntegrityError, 409, rolled back.  A row
\* that was found may have been given the hostname since; renaming it again
\* changes nothing.
HostnameTaken(q) ==
    /\ q.config.domain # NoHostname
    /\ q.config.domain # q.found
    /\ domains[q.config.domain] # Nobody
    /\ q.found # NoHostname => domains[q.config.domain] # q.app

RefuseUpdate(r) ==
    /\ request[r].op = "sync"
    /\ HostnameTaken(request[r])
    /\ locked' = Unlocked(r)
    /\ Become(r, Idle)
    /\ UNCHANGED <<apps, domains, secrets, writes>>

\* Faulty variant: a Domain row that exists is left as it is.
SyncedDomainOnce(q) ==
    [h \in Hostnames |->
        IF q.found = NoHostname /\ h = q.config.domain THEN q.app ELSE domains[h]]

\* The Domain row is inserted, renamed or, when it was found with the hostname
\* or there is no domain, left alone.
SyncedDomain(q) ==
    IF q.config.domain \in {NoHostname, q.found} THEN domains
    ELSE [h \in Hostnames |->
             IF h = q.config.domain THEN q.app
             ELSE IF domains[h] = q.app /\ q.found # NoHostname THEN Nobody
             ELSE domains[h]]

UpdateApplication(r) ==
    LET q == request[r]
        a == q.app
        new == Assigned(q)
    IN /\ q.op = "sync"
       /\ ~HostnameTaken(q)
       /\ apps' = [apps EXCEPT
             ![a].min = Column(@, q.loaded.min, new.min),
             ![a].max = Column(@, q.loaded.max, new.max),
             ![a].desired = Column(@, q.loaded.desired, new.desired),
             ![a].config = Column(@, q.loaded.config, new.config),
             ![a].overlapped = @ \/ q.stale]
       /\ domains' = SyncedDomain(q)
       /\ locked' = Unlocked(r)
       /\ Finish(r, a)
       /\ writes' = writes + 1
       /\ UNCHANGED secrets

----------------------------------------------------------------------------
(* POST /applications/{id}/scale: start_scale                              *)

\* The operation lock keeps two scales of one application apart, not an update.
CheckBounds(r, a, target) ==
    /\ MayWrite(r)
    /\ \A s \in Requests : request[s].op = "scale" => request[s].app # a
    /\ apps[a].exists
    /\ apps[a].min <= target
    /\ target <= apps[a].max
    /\ Become(r, [op |-> "scale", app |-> a, target |-> target, loaded |-> Loaded(apps[a]),
                  stale |-> FALSE])
    /\ UNCHANGED <<apps, domains, secrets, locked, writes>>

StartScale(r) ==
    LET q == request[r]
    IN /\ q.op = "scale"
       /\ q.target # q.loaded.desired => locked[q.app] = Nobody
       /\ apps' = [apps EXCEPT
             ![q.app].desired = Column(@, q.loaded.desired, q.target),
             ![q.app].overlapped = @ \/ q.stale]
       /\ Finish(r, q.app)
       /\ writes' = writes + 1
       /\ UNCHANGED <<domains, secrets, locked>>

----------------------------------------------------------------------------
(* POST and DELETE /applications/{id}/secrets                              *)

FindSecret(r, op, a, k) ==
    /\ MayWrite(r)
    /\ apps[a].exists
    /\ op = "delete_secret" => <<a, k>> \in secrets
    /\ Become(r, [op |-> op, app |-> a, key |-> k, found |-> <<a, k>> \in secrets])
    /\ UNCHANGED <<apps, domains, secrets, locked, writes>>

\* An INSERT of a row that is there by now, or an UPDATE of one that is gone,
\* raises and leaves the rows as they are.
SetSecret(r) ==
    LET q == request[r]
    IN /\ q.op = "set_secret"
       /\ secrets' = IF q.found THEN secrets ELSE secrets \cup {<<q.app, q.key>>}
       /\ Become(r, Idle)
       /\ writes' = writes + 1
       /\ UNCHANGED <<apps, domains, locked>>

DeleteSecret(r) ==
    LET q == request[r]
    IN /\ q.op = "delete_secret"
       /\ secrets' = secrets \ {<<q.app, q.key>>}
       /\ Become(r, Idle)
       /\ writes' = writes + 1
       /\ UNCHANGED <<apps, domains, locked>>

----------------------------------------------------------------------------
(* POST /applications/{id}/validate: validate_application                  *)

\* _validate_domain_uniqueness
DomainError(a, config) ==
    config.domain # NoHostname /\ domains[config.domain] \notin {a, Nobody}

\* _validate_secrets: a row of the application, or one without an application
\* (no route writes such a row).
SecretError(a, config) ==
    \E k \in config.secrets : <<a, k>> \notin secrets /\ k \notin GlobalKeys

\* The checks of the Control Plane's own rows, up to the first await; ports of
\* other applications (_validate_port_range_bookkeeping) are only a warning.
CheckRecords(r, a) ==
    LET c == apps[a].config
    IN /\ request[r] = Idle
       /\ apps[a].exists
       /\ Become(r, [op |-> "certificate", cert |-> c.cert,
                     errors |-> DomainError(a, c) \/ SecretError(a, c)])
       /\ UNCHANGED <<apps, domains, secrets, locked, writes>>

\* The issues found so far are kept.
CertificateReported(r, error, unsound) ==
    Become(r, [op |-> "agent", errors |-> request[r].errors \/ error, unsound |-> unsound])

\* Without a certificate and key path there is nothing to check.
NoCertificate(r) ==
    /\ request[r].op = "certificate"
    /\ ~request[r].cert
    /\ CertificateReported(r, FALSE, FALSE)
    /\ UNCHANGED <<apps, domains, secrets, locked, writes>>

\* The Gateway Manager cannot be reached (a warning), or answers something else
\* than 200 (an error).
CertificateUnchecked(r, refused) ==
    /\ request[r].op = "certificate"
    /\ request[r].cert
    /\ CertificateReported(r, refused, FALSE)
    /\ UNCHANGED <<apps, domains, secrets, locked, writes>>

CertificateError(p) == \E c \in ValidateCertificate(p) : ~c.passed /\ c.severity = "error"

\* _validate_certificate_pair
CertificateChecked(r, p) ==
    /\ request[r].op = "certificate"
    /\ request[r].cert
    /\ ~(OpensKey(p) /\ LoadPrivateKeyRaises(p))
    /\ CertificateReported(r, CertificateError(p), ~Sound(p))
    /\ UNCHANGED <<apps, domains, secrets, locked, writes>>

\* The Gateway Manager's 500 has no JSON body: response.json() raises, and the
\* validation ends without an answer.
CertificateRaises(r, p) ==
    /\ request[r].op = "certificate"
    /\ request[r].cert
    /\ OpensKey(p)
    /\ LoadPrivateKeyRaises(p)
    /\ Become(r, Idle)
    /\ UNCHANGED <<apps, domains, secrets, locked, writes>>

\* _validate_on_agent; an agent that does not answer in time is a warning.
AgentError(answer) == answer \notin {"passed", "late", "warned"}

AgentChecked(r, answer) ==
    /\ request[r].op = "agent"
    /\ Become(r, [request[r] EXCEPT !.op = "answered", !.errors = @ \/ AgentError(answer)])
    /\ UNCHANGED <<apps, domains, secrets, locked, writes>>

\* The ok of the ValidationResponse.
Ok(q) == ~q.errors

Answer(r) ==
    /\ request[r].op = "answered"
    /\ Become(r, Idle)
    /\ UNCHANGED <<apps, domains, secrets, locked, writes>>

----------------------------------------------------------------------------

Save(r) ==
    \/ \E config \in Configs :
          \/ \E slug \in Slugs : FindSlug(r, config, slug)
          \/ \E a \in Apps : LoadApplication(r, a, config)
    \/ RefuseCreate(r)
    \/ \E a \in Apps : CreateApplication(r, a)
    \/ FlushApplication(r) \/ FindDomain(r) \/ RefuseUpdate(r) \/ UpdateApplication(r)

Scale(r) ==
    \/ \E a \in Apps, target \in Targets : CheckBounds(r, a, target)
    \/ StartScale(r)

Secret(r) ==
    \/ \E op \in {"set_secret", "delete_secret"}, a \in Apps, k \in Keys : FindSecret(r, op, a, k)
    \/ SetSecret(r) \/ DeleteSecret(r)

Validate(r) ==
    \/ \E a \in Apps : CheckRecords(r, a)
    \/ NoCertificate(r)
    \/ \E refused \in BOOLEAN : CertificateUnchecked(r, refused)
    \/ /\ request[r].op = "certificate"
       /\ \E p \in Pairs : CertificateChecked(r, p) \/ CertificateRaises(r, p)
    \/ \E answer \in AgentAnswers : AgentChecked(r, answer)
    \/ Answer(r)

Next == \E r \in Requests : Save(r) \/ Scale(r) \/ Secret(r) \/ Validate(r)

Spec == Init /\ [][Next]_vars

----------------------------------------------------------------------------

\* The replica columns are those of the saved healer.yaml and the scaling target
\* lies between them, unless requests for the application overlapped.
BoundsFollowConfig ==
    \A a \in Apps : apps[a].exists /\ ~apps[a].overlapped =>
        /\ apps[a].min = apps[a].config.min
        /\ apps[a].max = apps[a].config.max
        /\ apps[a].min <= apps[a].desired
        /\ apps[a].desired <= apps[a].max

\* An application never has two Domain rows, however updates overlap: the flush
\* of the application comes before the search for its Domain row, so the second
\* of two updates finds the row of the first.  No constraint says so.
OneDomainRow == \A a \in Apps : Cardinality(DomainsOf(a)) <= 1

\* The hostname of the saved healer.yaml belongs to the application, unless
\* requests for it overlapped: _validate_domain_uniqueness has nothing to report.
HostnameIsOwn ==
    \A a \in Apps :
        apps[a].exists /\ ~apps[a].overlapped /\ apps[a].config.domain # NoHostname =>
            domains[apps[a].config.domain] = a

\* A validation that looked at a certificate pair answers ok only if both files
\* hold what they should, belong together and the certificate has not run out:
\* what the Gateway Manager found reaches the verdict as an error, whatever the
\* order of the date checks, and no later check takes it back.
UnsoundPairBlocks ==
    \A r \in Requests : request[r].op = "answered" /\ request[r].unsound => ~Ok(request[r])
============================================================================
