----------------------------- MODULE Enrollment -----------------------------
(***************************************************************************)
(* Trust between a hub and a collector on another Mac.                     *)
(*                                                                         *)
(* The hub (internal/store/enrollment.go, internal/store/inventory.go,     *)
(* internal/collector/remote/handler.go, internal/enrollment/enrollment.go)*)
(* reserves a host for a one-use token, signs a certificate for the token, *)
(* renews it and revokes it, and forgets all of it in a restore.  The Mac  *)
(* (internal/lifecycle/remote_setup.go, internal/collector/pairing,        *)
(* internal/collector/scheduler/remote_transport.go) keeps its identity in *)
(* six files which an interrupted setup leaves half replaced, and runs a   *)
(* collector that renews the certificate it was started with.  A second    *)
(* Mac may present the same token.                                         *)
(*                                                                         *)
(* A certificate is its serial number, an index of creds; a key, a signing *)
(* request and an installation are numbers taken from one counter; the CA  *)
(* is named by the deployment generation that made it.                     *)
(***************************************************************************)
EXTENDS Naturals, Sequences, FiniteSets

CONSTANTS MaxToken,      \* tokens issued
          MaxFresh,      \* keys, requests and installations generated
          MaxCert,       \* certificates signed
          MaxClock,      \* clock
          MaxFault,      \* crashes and lost responses
          TokenLife,     \* TokenValidity, ten minutes
          ReceiptLife,   \* an idempotency receipt, 24 hours
          Overlap,       \* RotationOverlap, seven days
          RenewBefore,   \* thirty days
          CertLife       \* CertificateValidity

ASSUME Lifetimes ==
  /\ {MaxToken, MaxFresh, MaxCert, MaxClock, MaxFault} \subseteq Nat
  /\ {TokenLife, ReceiptLife, Overlap, RenewBefore, CertLife} \subseteq Nat
  /\ 0 < TokenLife /\ TokenLife < ReceiptLife /\ ReceiptLife < Overlap
  /\ Overlap < RenewBefore /\ RenewBefore < CertLife

VARIABLES clock,
          gen,        \* hub: the deployment generation, 2 after the restore
          hosts,      \* hub: {[id, inst, live]}
          tokens,     \* hub: <<[gen, host, exp, used, again, inst]>>
          receipts,   \* hub: token -> what the redemption answered
          creds,      \* hub: <<[gen, host, key, exp, revoked, prior, issued]>>
          renewed,    \* hub: {[serial, csr, cert, exp]}, receipts of renewals
          banned,     \* history: certificates an administrator revoked
          disk,       \* Mac: the identity files
          setup,      \* Mac: the setup command
          run,        \* Mac: the collector process
          fresh,
          mishaps

trust == <<gen, hosts, tokens, receipts, creds, renewed, banned>>
mac == <<disk, setup, run, fresh>>
enrollVars == <<clock, trust, mac, mishaps>>

Local == 0                       \* the hub's own host
Foreign == 0                     \* key and installation of the other Mac
Absent == [kind |-> "absent"]
Torn == [kind |-> "torn"]        \* created, and not written
Never == MaxClock + CertLife + 1
Min2(a, b) == IF a < b THEN a ELSE b

NoFiles == [key |-> 0, cert |-> 0, ca |-> 0, pair |-> Absent, conf |-> 0,
            remote |-> Absent, next |-> 0, journal |-> Absent, renewal |-> Absent]
Idle == [pc |-> "idle", file |-> 0, again |-> FALSE, result |-> 0]
Off == [pc |-> "off", serial |-> 0, result |-> 0]

EnrollInit ==
  /\ clock = 0 /\ gen = 1 /\ hosts = {} /\ tokens = <<>> /\ creds = <<>>
  /\ receipts = [t \in 1..MaxToken |-> Absent] /\ renewed = {} /\ banned = {}
  /\ disk = NoFiles /\ setup = Idle /\ run = Off /\ fresh = 0 /\ mishaps = 0

------------------------------------------------------------------------------
(* The hub. *)

Active == {h \in hosts : h.live}
Reserved == {t \in 1..Len(tokens) : /\ tokens[t].gen = gen /\ ~tokens[t].used
                                    /\ tokens[t].exp > clock}
Room == Cardinality(Active) < 2      \* the triggers hosts_active_cap*

\* A certificate the listener accepts now.
Accepted(s) ==
  /\ s \in 1..Len(creds)
  /\ creds[s].exp > clock /\ creds[s].revoked > clock /\ creds[s].gen = gen
  /\ \E h \in Active : h.id = creds[s].host

\* A host of the restored archive whose collector may be enrolled again.
Retained(h) ==
  /\ gen = 2 /\ h \in hosts /\ ~h.live
  /\ \E t \in 1..Len(tokens) : tokens[t].host = h.id /\ tokens[t].used /\ tokens[t].gen # gen
  /\ \A s \in 1..Len(creds) : creds[s].host = h.id => creds[s].revoked <= clock
  /\ \A t \in Reserved : tokens[t].host # h.id

Reserve(host, again, inst) ==
  /\ Len(tokens) < MaxToken
  /\ Cardinality(Active) + Cardinality(Reserved) < 2
  /\ tokens' = Append(tokens, [gen |-> gen, host |-> host, exp |-> clock + TokenLife,
                               used |-> FALSE, again |-> again, inst |-> inst])
  /\ UNCHANGED <<clock, gen, hosts, receipts, creds, renewed, banned, mac, mishaps>>

Issue == Reserve(Len(tokens) + 1, FALSE, 0)
IssueAgain == \E h \in hosts : Retained(h) /\ Reserve(h.id, TRUE, h.inst)

\* The token lookup in front of the listener's body, and of the pairing code.
Recognised(t) == t \in 1..Len(tokens) /\ (tokens[t].used \/ clock < tokens[t].exp)

Signed(host, key, prior) ==
  [gen |-> gen, host |-> host, key |-> key, exp |-> clock + CertLife,
   revoked |-> Never, prior |-> prior, issued |-> clock]

Replayed(t, req) ==
  receipts[t].kind = "receipt" /\ receipts[t].req = req /\ clock < receipts[t].exp

Redeemable(t, req) ==
  /\ receipts[t].kind = "absent" /\ ~tokens[t].used /\ clock < tokens[t].exp
  /\ req.host = tokens[t].host /\ req.ca = gen /\ tokens[t].gen = gen
  /\ tokens[t].again => req.inst = tokens[t].inst
  /\ Len(creds) < MaxCert

\* The host row of a redeemed token: a new one, or the retained one alive again.
HostAdmits(t, req) ==
  /\ Room
  /\ IF tokens[t].again
       THEN \E h \in hosts : h.id = tokens[t].host /\ h.inst = req.inst /\ ~h.live
       ELSE \A h \in hosts : h.id # tokens[t].host /\ h.inst # req.inst

HostsWith(t, req) ==
  {h \in hosts : h.id # tokens[t].host} \cup {[id |-> tokens[t].host, inst |-> req.inst, live |-> TRUE]}

CanRedeem(t, req) ==
  Recognised(t) /\ (Replayed(t, req) \/ (Redeemable(t, req) /\ HostAdmits(t, req)))

Redeem(t, req) ==
  /\ Recognised(t)
  /\ \/ Replayed(t, req) /\ UNCHANGED trust
     \/ /\ Redeemable(t, req) /\ HostAdmits(t, req)
        /\ hosts' = HostsWith(t, req)
        /\ creds' = Append(creds, Signed(tokens[t].host, req.key, 0))
        /\ tokens' = [tokens EXCEPT ![t].used = TRUE]
        /\ receipts' = [receipts EXCEPT ![t] =
             [kind |-> "receipt", req |-> req, cert |-> Len(creds) + 1, exp |-> clock + ReceiptLife]]
        /\ UNCHANGED <<gen, renewed, banned>>

RedeemedCert(t) == IF receipts[t].kind = "receipt" THEN receipts[t].cert ELSE Len(creds) + 1

\* A renewal on the connection of certificate s: the predecessor dies at the
\* end of the overlap, never later than an earlier renewal already said.
RenewalOf(s, csr) == {r \in renewed : r.serial = s /\ r.csr = csr /\ clock < r.exp}

\* Mutant of RevokedAt: every renewal starts the overlap again.
RevokedAnew(s) == clock + Overlap

RevokedAt(s) == Min2(creds[s].revoked, clock + Overlap)

Renew(s, csr) ==
  /\ Accepted(s)
  /\ \/ RenewalOf(s, csr) # {} /\ UNCHANGED trust
     \/ /\ RenewalOf(s, csr) = {}
        /\ creds[s].exp - clock <= RenewBefore
        /\ Len(creds) < MaxCert
        /\ creds' = Append([creds EXCEPT ![s].revoked = RevokedAt(s)],
                           Signed(creds[s].host, creds[s].key, s))
        /\ renewed' = {r \in renewed : r.serial # s \/ r.csr # csr}
             \cup {[serial |-> s, csr |-> csr, cert |-> Len(creds) + 1, exp |-> clock + ReceiptLife]}
        /\ UNCHANGED <<gen, hosts, tokens, receipts, banned>>

RenewedCert(s, csr) ==
  IF RenewalOf(s, csr) # {} THEN (CHOOSE r \in RenewalOf(s, csr) : TRUE).cert ELSE Len(creds) + 1

Living(id) == {s \in 1..Len(creds) : creds[s].host = id /\ creds[s].revoked > clock}

Revoke ==
  \E h \in Active :
    /\ Living(h.id) # {}
    /\ creds' = [s \in 1..Len(creds) |->
                   IF s \in Living(h.id) THEN [creds[s] EXCEPT !.revoked = clock] ELSE creds[s]]
    /\ banned' = banned \cup Living(h.id)
    /\ UNCHANGED <<clock, gen, hosts, tokens, receipts, renewed, mac, mishaps>>

RegisterLocalHost ==
  /\ Room /\ \A h \in hosts : h.id # Local
  /\ hosts' = hosts \cup {[id |-> Local, inst |-> MaxFresh + 1, live |-> TRUE]}
  /\ UNCHANGED <<clock, gen, tokens, receipts, creds, renewed, banned, mac, mishaps>>

ReEnrollLocalHost ==
  /\ gen = 2 /\ Room
  /\ \E h \in hosts : /\ h.id = Local /\ ~h.live
                      /\ hosts' = (hosts \ {h}) \cup {[h EXCEPT !.live = TRUE]}
  /\ UNCHANGED <<clock, gen, tokens, receipts, creds, renewed, banned, mac, mishaps>>

\* What the restore does to trust (Restore.tla models the restore itself).
TrustReset ==
  /\ gen = 1 /\ gen' = 2
  /\ hosts' = {[h EXCEPT !.live = FALSE] : h \in hosts}
  /\ creds' = [s \in 1..Len(creds) |-> [creds[s] EXCEPT !.revoked = Min2(@, clock)]]
  /\ UNCHANGED <<clock, tokens, receipts, renewed, banned, mac, mishaps>>

\* Another Mac presents the file, with a key and an installation of its own.
OtherMac ==
  \E t \in 1..Len(tokens) :
    /\ Redeem(t, [host |-> tokens[t].host, inst |-> Foreign, key |-> Foreign, ca |-> tokens[t].gen])
    /\ trust' # trust
    /\ UNCHANGED <<clock, mac, mishaps>>

------------------------------------------------------------------------------
(* The setup command of the Mac. *)

Fresh(t) == tokens[t].exp > clock

\* A pairing code brings the file of the hub that knows it, with the CA that
\* the hub has now: one of an earlier CA fails its fingerprint.
Bootstrapped(t) == Recognised(t) /\ tokens[t].gen = gen /\ Fresh(t)

\* The file an operator carried over, or one fetched with the pairing code.
HasFile(t) == Fresh(t) \/ Bootstrapped(t)

IsConfig(d) == d.remote.kind = "config"
Names(r, t) == r.host = tokens[t].host /\ r.ca = tokens[t].gen

IdentityConflicts(d, s) == creds[s].gen # d.remote.gen \/ creds[s].host # d.remote.host

\* Mutant of TransportOpens: only the key and the certificate are compared.
OpensIfKeyFits(d, g) ==
  IsConfig(d) /\ d.key # 0 /\ d.cert # 0 /\ d.ca # 0 /\ creds[d.cert].key = d.key /\ clock < creds[d.cert].exp

\* NewRemoteTransport: the files are one identity.
TransportOpens(d, g) ==
  /\ IsConfig(d) /\ d.key # 0 /\ d.cert # 0 /\ d.ca # 0
  /\ d.remote.gen = g /\ d.ca = d.remote.ca
  /\ creds[d.cert].key = d.key
  /\ ~IdentityConflicts(d, d.cert)
  /\ creds[d.cert].gen = d.ca /\ clock < creds[d.cert].exp

PairingOpens(d, g) == d.pair.kind = "pairing" /\ d.pair.gen = g
Repaired(d) == [d EXCEPT !.remote.exp = creds[d.cert].exp]

Begin(t, step) == setup' = [Idle EXCEPT !.pc = step, !.file = t]
HubsAlone == <<clock, trust, mishaps>>

\* First setup: an attempt found on disk is resumed only for the same file.
Resumes(t) == disk.remote.kind = "pending" /\ Names(disk.remote, t) /\ disk.key # 0

BeginSetup(t) ==
  /\ setup.pc = "idle" /\ t \in 1..Len(tokens) /\ HasFile(t) /\ ~tokens[t].again
  /\ \/ Resumes(t) /\ Begin(t, "exchange") /\ UNCHANGED <<disk, fresh>>
     \/ /\ disk.remote = Absent /\ disk.key = 0 /\ fresh < MaxFresh
        /\ fresh' = fresh + 1 /\ disk' = [disk EXCEPT !.key = fresh + 1]
        /\ Begin(t, "attempt")
  /\ UNCHANGED <<run, HubsAlone>>

SaveAttempt ==
  /\ setup.pc = "attempt"
  /\ disk' = [disk EXCEPT !.remote = [kind |-> "pending", host |-> tokens[setup.file].host,
                                      inst |-> disk.key, ca |-> tokens[setup.file].gen]]
  /\ setup' = [setup EXCEPT !.pc = "exchange"]
  /\ UNCHANGED <<run, fresh, HubsAlone>>

\* Re-enrolment: only a configured collector whose CA the file replaces.
Finished(t) ==
  IsConfig(disk) /\ Names(disk.remote, t)
    /\ TransportOpens(disk, disk.remote.gen) /\ PairingOpens(disk, disk.remote.gen)
Replaces(t) ==
  /\ IsConfig(disk) /\ disk.remote.host = tokens[t].host /\ disk.remote.ca # tokens[t].gen
  /\ disk.pair.kind = "pairing" /\ disk.pair.host = tokens[t].host
  /\ disk.pair.inst = disk.remote.inst

\* Mutant of JournalMatches: the pairing must still be the one of before.
JournalOfOldPairing(j, t) ==
  /\ j.host = tokens[t].host /\ j.inst = disk.pair.inst /\ disk.pair.gen = j.prev
  /\ j.prevca = disk.remote.ca /\ j.nextca = tokens[t].gen

\* The journal belongs to this file and to the pairing of before or after it.
JournalMatches(j, t) ==
  /\ j.host = tokens[t].host /\ j.inst = disk.pair.inst
  /\ j.prevca = disk.remote.ca /\ j.nextca = tokens[t].gen
  /\ \/ disk.pair.gen = j.prev
     \/ j.result # 0 /\ disk.pair.gen = creds[j.result].gen

ResumeJournal(t) ==
  /\ disk.journal.kind = "journal" /\ JournalMatches(disk.journal, t) /\ disk.next # 0
  /\ setup' = [pc |-> IF disk.journal.result = 0 THEN "exchange" ELSE "key",
               file |-> t, again |-> TRUE, result |-> disk.journal.result]
  /\ run' = IF disk.journal.result = 0 THEN run ELSE Off
  /\ UNCHANGED <<disk, fresh>>

StageKey(t) ==
  /\ disk.journal = Absent /\ disk.pair.gen = disk.remote.gen /\ disk.next = 0
  /\ fresh < MaxFresh /\ fresh' = fresh + 1
  /\ disk' = [disk EXCEPT !.next = fresh + 1]
  /\ setup' = [pc |-> "journal", file |-> t, again |-> TRUE, result |-> 0]
  /\ UNCHANGED run

BeginReEnroll(t) ==
  /\ setup.pc = "idle" /\ t \in 1..Len(tokens) /\ Fresh(t)
  /\ \/ Finished(t) /\ disk' = [disk EXCEPT !.journal = Absent, !.next = 0]
          /\ UNCHANGED <<setup, run, fresh>>
     \/ Replaces(t) /\ (ResumeJournal(t) \/ StageKey(t))
  /\ UNCHANGED HubsAlone

SaveJournal ==
  /\ setup.pc = "journal"
  /\ disk' = [disk EXCEPT !.journal =
       [kind |-> "journal", host |-> tokens[setup.file].host, inst |-> disk.pair.inst,
        prev |-> disk.pair.gen, prevca |-> disk.remote.ca, nextca |-> tokens[setup.file].gen, result |-> 0]]
  /\ setup' = [setup EXCEPT !.pc = "exchange"]
  /\ UNCHANGED <<run, fresh, HubsAlone>>

\* The request is the one saved with the attempt, whatever file is used.
Request ==
  LET t == setup.file IN
  [host |-> tokens[t].host, ca |-> tokens[t].gen,
   inst |-> IF setup.again THEN disk.journal.inst ELSE disk.remote.inst,
   key  |-> IF setup.again THEN disk.next ELSE disk.key]

\* The answer is checked against the file and the key; the re-enrolment saves
\* it in the journal and stops the collector before it touches its files.
Verified(s, cs) == cs[s].host = Request.host /\ cs[s].key = Request.key /\ cs[s].gen = Request.ca

Exchange ==
  /\ setup.pc = "exchange" /\ tokens[setup.file].gen = gen
  /\ Redeem(setup.file, Request)
  /\ LET s == RedeemedCert(setup.file) IN
       /\ Verified(s, creds')
       /\ setup' = [setup EXCEPT !.pc = IF setup.again THEN "key" ELSE "cert", !.result = s]
       /\ disk' = IF setup.again THEN [disk EXCEPT !.journal.result = s] ELSE disk
       /\ run' = IF setup.again THEN Off ELSE run
  /\ UNCHANGED <<clock, fresh, mishaps>>

ExchangeLost ==
  /\ setup.pc = "exchange" /\ tokens[setup.file].gen = gen /\ mishaps < MaxFault
  /\ Redeem(setup.file, Request)
  /\ mishaps' = mishaps + 1 /\ setup' = Idle
  /\ UNCHANGED <<clock, disk, run, fresh>>

ExchangeRefused ==
  /\ setup.pc = "exchange"
  /\ ~(tokens[setup.file].gen = gen /\ CanRedeem(setup.file, Request))
  /\ setup' = Idle
  /\ UNCHANGED <<disk, run, fresh, HubsAlone>>

------------------------------------------------------------------------------
(* The files of the issued identity, written one after the other: each is  *)
(* renamed into place, but for a new pairing, which is created under its    *)
(* final name and then written.                                             *)

NewPairing ==
  [kind |-> "pairing", gen |-> creds[setup.result].gen, host |-> tokens[setup.file].host, inst |-> Request.inst]

\* CreateEnrolled opens a pairing that is there, ReEnroll advances it: neither
\* takes one that was not written to its end.
PairingFits ==
  IF setup.again
    THEN /\ disk.pair.kind = "pairing"
         /\ disk.pair.host = NewPairing.host /\ disk.pair.inst = NewPairing.inst
         /\ disk.pair.gen \in {disk.journal.prev, NewPairing.gen}
    ELSE PairingOpens(disk, NewPairing.gen)
CreatesPairing == ~setup.again /\ disk.pair = Absent

Put(step, then, d) ==
  /\ setup.pc = step /\ disk' = d /\ setup' = [setup EXCEPT !.pc = then]
  /\ UNCHANGED <<run, fresh, HubsAlone>>

InstallFile ==
  LET c == creds[setup.result]  t == tokens[setup.file] IN
  \/ Put("key", "cert", [disk EXCEPT !.key = disk.next])
  \/ Put("cert", "ca", [disk EXCEPT !.cert = setup.result])
  \/ Put("ca", "pair", [disk EXCEPT !.ca = t.gen])
  \/ CreatesPairing /\ Put("pair", "fill", [disk EXCEPT !.pair = Torn])
  \/ Put("fill", "conf", [disk EXCEPT !.pair = NewPairing])
  \/ setup.pc = "pair" /\ PairingFits /\ Put("pair", "conf", [disk EXCEPT !.pair.gen = NewPairing.gen])
  \/ Put("conf", "remote", [disk EXCEPT !.conf = c.gen])
  \/ Put("remote", "clean", [disk EXCEPT !.remote =
         [kind |-> "config", gen |-> c.gen, host |-> c.host, inst |-> Request.inst,
          ca |-> t.gen, exp |-> c.exp]])

\* "explicit recovery required": the same command is refused again.
PairingRefused ==
  /\ setup.pc = "pair" /\ ~CreatesPairing /\ ~PairingFits
  /\ setup' = Idle
  /\ UNCHANGED <<disk, run, fresh, HubsAlone>>

\* The journal goes first, then the staged key it names.
RemoveJournal ==
  /\ setup.pc = "clean"
  /\ disk' = [disk EXCEPT !.journal = Absent] /\ setup' = [setup EXCEPT !.pc = "unstage"]
  /\ UNCHANGED <<run, fresh, HubsAlone>>
RemoveStagedKey ==
  /\ setup.pc = "unstage"
  /\ disk' = [disk EXCEPT !.next = 0] /\ setup' = Idle
  /\ UNCHANGED <<run, fresh, HubsAlone>>

CrashSetup ==
  /\ setup.pc # "idle" /\ mishaps < MaxFault
  /\ setup' = Idle /\ mishaps' = mishaps + 1
  /\ UNCHANGED <<clock, trust, disk, run, fresh>>

------------------------------------------------------------------------------
(* The collector. *)

StartCollector ==
  /\ run.pc = "off" /\ setup.pc = "idle" /\ disk.conf # 0
  /\ TransportOpens(disk, disk.conf) /\ PairingOpens(disk, disk.conf)
  /\ disk' = Repaired(disk)
  /\ run' = [pc |-> "run", serial |-> disk.cert, result |-> 0]
  /\ UNCHANGED <<setup, fresh, HubsAlone>>

StopCollector ==
  /\ run.pc # "off" /\ mishaps < MaxFault
  /\ run' = Off /\ mishaps' = mishaps + 1
  /\ UNCHANGED <<clock, trust, disk, setup, fresh>>

Due(s) == creds[s].exp - clock <= RenewBefore

\* A request left over from before is dropped when the renewal is not due.
ForgetRenewal ==
  /\ run.pc = "run" /\ ~Due(run.serial) /\ disk.renewal # Absent
  /\ disk' = [disk EXCEPT !.renewal = Absent]
  /\ UNCHANGED <<setup, run, fresh, HubsAlone>>

\* The request and its key are on disk before the hub sees them.
PrepareRenewal ==
  /\ run.pc = "run" /\ Due(run.serial) /\ disk.renewal = Absent /\ fresh < MaxFresh
  /\ fresh' = fresh + 1
  /\ disk' = [disk EXCEPT !.renewal = [kind |-> "renewal", serial |-> run.serial, csr |-> fresh + 1]]
  /\ UNCHANGED <<setup, run, HubsAlone>>

Asks == run.pc = "run" /\ Due(run.serial) /\ disk.renewal # Absent /\ disk.renewal.serial = run.serial

RenewCredential ==
  /\ Asks /\ Renew(run.serial, disk.renewal.csr)
  /\ run' = [run EXCEPT !.pc = "cert", !.result = RenewedCert(run.serial, disk.renewal.csr)]
  /\ UNCHANGED <<clock, disk, setup, fresh, mishaps>>

RenewalLost ==
  /\ Asks /\ Renew(run.serial, disk.renewal.csr) /\ trust' # trust /\ mishaps < MaxFault
  /\ mishaps' = mishaps + 1
  /\ UNCHANGED <<clock, mac>>

InstallRenewed ==
  /\ run.pc = "cert"
  /\ disk' = [disk EXCEPT !.cert = run.result] /\ run' = [run EXCEPT !.pc = "config"]
  /\ UNCHANGED <<setup, fresh, HubsAlone>>
RecordRenewed ==
  /\ run.pc = "config"
  /\ disk' = [disk EXCEPT !.remote.exp = creds[run.result].exp] /\ run' = [run EXCEPT !.pc = "reload"]
  /\ UNCHANGED <<setup, fresh, HubsAlone>>
ReloadTransport ==
  /\ run.pc = "reload"
  /\ disk' = [disk EXCEPT !.renewal = Absent]
  /\ run' = IF TransportOpens(disk, disk.conf)
              THEN [pc |-> "run", serial |-> disk.cert, result |-> 0] ELSE [run EXCEPT !.pc = "run"]
  /\ UNCHANGED <<setup, fresh, HubsAlone>>

ClockTick == clock < MaxClock /\ clock' = clock + 1 /\ UNCHANGED <<trust, mac, mishaps>>

HubStep == Issue \/ IssueAgain \/ Revoke \/ RegisterLocalHost \/ ReEnrollLocalHost \/ TrustReset \/ OtherMac
Begins == \E t \in 1..MaxToken : BeginSetup(t) \/ BeginReEnroll(t)
SetupStep == SaveAttempt \/ SaveJournal \/ Exchange \/ ExchangeRefused
               \/ InstallFile \/ PairingRefused \/ RemoveJournal \/ RemoveStagedKey
RunStep == StartCollector \/ ForgetRenewal \/ PrepareRenewal \/ RenewCredential
             \/ InstallRenewed \/ RecordRenewed \/ ReloadTransport
Fault == ExchangeLost \/ CrashSetup \/ StopCollector \/ RenewalLost
EnrollNext == ClockTick \/ HubStep \/ Begins \/ SetupStep \/ RunStep \/ Fault

\* The operator runs the setup again until it has succeeded, and a setup that
\* is running takes its steps.  Nothing else has to happen.
Unfinished == disk.remote.kind = "pending" \/ disk.journal # Absent
Retries == Begins /\ Unfinished
EnrollSpec == EnrollInit /\ [][EnrollNext]_enrollVars /\ WF_enrollVars(SetupStep) /\ SF_enrollVars(Retries)

------------------------------------------------------------------------------
\* A collector the hub listens to speaks for exactly one identity: the
\* pairing it reads its identifiers from, the key, the CA and the
\* configuration on its disk are those of the certificate it presents, and
\* the hub's host row names the same installation (remote_transport.go,
\* pairing/state.go; a setup may have been interrupted between any two files).
OneIdentity ==
  run.pc # "off" /\ Accepted(run.serial) =>
    LET c == creds[run.serial] IN
    /\ disk.key = c.key /\ disk.ca = c.gen
    /\ disk.pair.gen = c.gen /\ disk.pair.host = c.host
    /\ \E h \in Active : h.id = c.host /\ h.inst = disk.pair.inst

\* The overlap of RenewCollectorCredential: a certificate is accepted until
\* seven days after its first successor was signed, and no longer, however
\* often the answer was lost and the renewal repeated.
OverlapIsExact ==
  \A s \in 1..Len(creds) :
    LET over == \E c \in 1..Len(creds) : creds[c].prior = s /\ clock >= creds[c].issued + Overlap IN
    /\ over => ~Accepted(s)
    /\ Accepted(s) \/ over \/ clock >= creds[s].exp \/ gen # creds[s].gen \/ s \in banned

\* An attempt whose identity is on disk is finished by running the command
\* again while a file for it is fresh, wherever it was interrupted and
\* whichever answers were lost: unless it was killed between the creation and
\* the writing of pairing.json, which no command replaces, a restore replaced
\* the CA, the other host took the last place, or the token was spent on a key
\* this Mac does not hold: another Mac's, or one whose journal a run with the
\* older, still fresh file removed.
Attempt == IF disk.journal # Absent THEN disk.journal ELSE disk.remote
AttemptCA == IF disk.journal # Absent THEN disk.journal.nextca ELSE disk.remote.ca
TornPairing == disk.pair = Torn /\ setup.pc # "fill"
Excused ==
  \/ TornPairing
  \/ \A t \in 1..Len(tokens) : tokens[t].host = Attempt.host /\ tokens[t].gen = AttemptCA => ~Fresh(t)
  \/ gen # AttemptCA
  \/ ~Room
  \/ \E s \in 1..Len(creds) : /\ creds[s].host = Attempt.host /\ creds[s].gen = gen
                              /\ creds[s].key \notin {disk.key, disk.next} \ {0}
  \/ Len(creds) = MaxCert
SetupFinishes == []<>(~Unfinished \/ Excused)
==============================================================================
