-------------------------- MODULE LeaseDomainProofs --------------------------
(***************************************************************************)
(* Facts about the operators of LeaseDomain, for every registry, request    *)
(* and instant.                                                             *)
(***************************************************************************)
EXTENDS LeaseDomain, FiniteSetTheorems, TLAPS

(* The empty registry is a document.                                        *)
LEMMA EmptyDocumentType == EmptyDocument \in Document
BY DEF EmptyDocument, Document, Report, NoReport, NoLease

(* Pruning yields a document.                                               *)
LEMMA PruneType ==
  ASSUME NEW doc \in Document, NEW now \in Nat
  PROVE  Prune(doc, now) \in Document
<1>1. PruneLeases(doc.activations, now) \in [Key -> Nat]
  BY DEF PruneLeases, Document, NoLease
<1>2. Prune(doc, now).rates \in [Key -> Nat]
  BY DEF Prune, Document, NoLease
<1>3. Prune(doc, now).reports \in [Scope -> Report]
  BY DEF Prune, Document, Report, NoReport
<1> QED
  BY <1>1, <1>2, <1>3 DEF Prune, Document

(* Pruning again at a later instant is pruning at the later instant.        *)
LEMMA PruneLater ==
  ASSUME NEW doc \in Document, NEW t \in Nat, NEW u \in Nat, t <= u
  PROVE  Prune(Prune(doc, t), u) = Prune(doc, u)
<1> DEFINE twice == Prune(Prune(doc, t), u)
           once  == Prune(doc, u)
<1>1. /\ doc.activations \in [Key -> Nat]
      /\ doc.rates \in [Key -> Nat]
      /\ doc.reports \in [Scope -> Report]
  BY DEF Document
<1>2. ASSUME NEW k \in Key
      PROVE  /\ twice.activations[k] = once.activations[k]
             /\ twice.rates[k] = once.rates[k]
  <2>1. doc.activations[k] \in Nat /\ doc.rates[k] \in Nat
    BY <1>1
  <2>2. /\ Prune(doc, t).activations[k] = IF doc.activations[k] > t THEN doc.activations[k] ELSE 0
        /\ Prune(doc, t).rates[k] = IF doc.rates[k] > t /\ doc.rates[k] <= doc.activations[k]
                                    THEN doc.rates[k] ELSE 0
    BY DEF Prune, PruneLeases, NoLease
  <2> DEFINE a == Prune(doc, t).activations[k]
             r == Prune(doc, t).rates[k]
  <2>3. /\ twice.activations[k] = IF a > u THEN a ELSE 0
        /\ twice.rates[k] = IF r > u /\ r <= a THEN r ELSE 0
    BY DEF Prune, PruneLeases, NoLease
  <2>4. /\ once.activations[k] = IF doc.activations[k] > u THEN doc.activations[k] ELSE 0
        /\ once.rates[k] = IF doc.rates[k] > u /\ doc.rates[k] <= doc.activations[k]
                           THEN doc.rates[k] ELSE 0
    BY DEF Prune, PruneLeases, NoLease
  <2> HIDE DEF a, r, twice, once
  <2> QED
    BY <2>1, <2>2, <2>3, <2>4 DEF a, r
<1>3. ASSUME NEW s \in Scope PROVE twice.reports[s] = once.reports[s]
  <2>1. doc.reports[s].expires \in Nat /\ NoReport.expires = 0
    BY <1>1 DEF Report, NoReport
  <2>2. Prune(doc, t).reports[s] = IF doc.reports[s].expires > t THEN doc.reports[s] ELSE NoReport
    BY DEF Prune
  <2>3. twice.reports[s] = IF Prune(doc, t).reports[s].expires > u
                           THEN Prune(doc, t).reports[s] ELSE NoReport
    BY DEF Prune
  <2>4. once.reports[s] = IF doc.reports[s].expires > u THEN doc.reports[s] ELSE NoReport
    BY DEF Prune
  <2> HIDE DEF twice, once
  <2> QED
    BY <2>1, <2>2, <2>3, <2>4
<1>4. twice \in Document /\ once \in Document
  BY PruneType
<1>5. twice.activations = once.activations /\ twice.rates = once.rates
  BY <1>2, <1>4 DEF Document
<1>6. twice.reports = once.reports
  BY <1>3, <1>4 DEF Document
<1> QED
  BY <1>4, <1>5, <1>6 DEF Document

(* Documents that are equal once expired rows are gone stay so.             *)
LEMMA SameLater ==
  ASSUME NEW a \in Document, NEW b \in Document, NEW t \in Nat, NEW u \in Nat, t <= u,
         Prune(a, t) = Prune(b, t)
  PROVE  Prune(a, u) = Prune(b, u)
BY PruneLater

(* Every mutation yields a document, rows of keys or scopes, and keys.      *)
LEMMA ApplyType ==
  ASSUME NEW doc \in Document, NEW req \in Request, NEW now \in Nat
  PROVE  /\ Apply(doc, req, now).doc \in Document
         /\ Apply(doc, req, now).changed \subseteq Key \cup Scope
         /\ Apply(doc, req, now).reset \subseteq Key
<1> DEFINE clean == Prune(doc, now)
<1>1. /\ clean \in Document
      /\ clean.activations \in [Key -> Nat]
      /\ clean.rates \in [Key -> Nat]
      /\ clean.reports \in [Scope -> Report]
  BY PruneType DEF Document
<1>2. /\ Named(req) \subseteq Key /\ InScope(req.scope) \subseteq Key
      /\ Live(clean.activations) \subseteq Key /\ Live(clean.rates) \subseteq Key
  BY DEF Named, InScope, Live
<1>3. req.scope \in Scope /\ req.duration \in Nat /\ req.op \in Operation
  BY DEF Request
<1> HIDE DEF clean
<1>4. CASE req.op \in {"enable", "renew"}
  <2> DEFINE expiry == now + req.duration
             acts   == [k \in Key |-> IF k \in Named(req) THEN expiry ELSE clean.activations[k]]
             rates  == [k \in Key |-> IF k \in Named(req) /\ clean.rates[k] > expiry
                                      THEN NoLease ELSE clean.rates[k]]
  <2>1. acts \in [Key -> Nat] /\ rates \in [Key -> Nat]
    BY <1>1, <1>3 DEF NoLease
  <2>2. Enable(doc, req, now) =
          Result([clean EXCEPT !.activations = acts, !.rates = rates], Named(req), Named(req))
    BY DEF Enable, clean
  <2> HIDE DEF acts, rates
  <2>3. [clean EXCEPT !.activations = acts, !.rates = rates] \in Document
    BY <1>1, <2>1 DEF Document
  <2> QED
    BY <1>2, <1>4, <2>2, <2>3 DEF Apply, Result
<1>5. CASE req.op = "disable"
  <2> DEFINE acts  == [k \in Key |-> IF k \in Named(req) THEN NoLease ELSE clean.activations[k]]
             rates == [k \in Key |-> IF k \in Named(req) THEN NoLease ELSE clean.rates[k]]
  <2>1. acts \in [Key -> Nat] /\ rates \in [Key -> Nat]
    BY <1>1 DEF NoLease
  <2>2. Disable(doc, req, now) =
          Result([clean EXCEPT !.activations = acts, !.rates = rates],
                 Named(req) \cap Live(clean.activations), Named(req))
    BY DEF Disable, clean
  <2> HIDE DEF acts, rates
  <2>3. [clean EXCEPT !.activations = acts, !.rates = rates] \in Document
    BY <1>1, <2>1 DEF Document
  <2> QED
    BY <1>2, <1>5, <2>2, <2>3 DEF Apply, Result
<1>6. CASE req.op = "set_rate"
  <2> DEFINE asked == now + req.duration
             clamp(k) == IF asked <= clean.activations[k] THEN asked ELSE clean.activations[k]
             rates == [k \in Key |-> IF k \in Named(req) THEN clamp(k) ELSE clean.rates[k]]
  <2>1. rates \in [Key -> Nat]
    BY <1>1, <1>3
  <2>2. SetRate(doc, req, now) = Result([clean EXCEPT !.rates = rates], Named(req), Named(req))
    BY DEF SetRate, clean
  <2> HIDE DEF rates
  <2>3. [clean EXCEPT !.rates = rates] \in Document
    BY <1>1, <2>1 DEF Document
  <2> QED
    BY <1>2, <1>6, <2>2, <2>3 DEF Apply, Result
<1>7. CASE req.op = "clear_rate"
  <2> DEFINE rates == [k \in Key |-> IF k \in Named(req) THEN NoLease ELSE clean.rates[k]]
  <2>1. rates \in [Key -> Nat]
    BY <1>1 DEF NoLease
  <2>2. ClearRate(doc, req, now) =
          Result([clean EXCEPT !.rates = rates], Named(req) \cap Live(clean.rates), Named(req))
    BY DEF ClearRate, clean
  <2> HIDE DEF rates
  <2>3. [clean EXCEPT !.rates = rates] \in Document
    BY <1>1, <2>1 DEF Document
  <2> QED
    BY <1>2, <1>7, <2>2, <2>3 DEF Apply, Result
<1>8. CASE req.op = "restore"
  <2> DEFINE affected == Live(clean.activations) \cap InScope(req.scope)
             report == [at |-> now, targets |-> {k[2] : k \in affected},
                        expires |-> now + ReportSeconds]
             without(leases) == [k \in Key |-> IF k \in affected THEN NoLease ELSE leases[k]]
             restored == [activations |-> without(clean.activations),
                          rates       |-> without(clean.rates),
                          reports     |-> [clean.reports EXCEPT ![req.scope] = report]]
  <2>1. without(clean.activations) \in [Key -> Nat] /\ without(clean.rates) \in [Key -> Nat]
    BY <1>1 DEF NoLease
  <2>2. affected \subseteq Key /\ \A k \in Key : k[2] \in Target
    BY <1>2 DEF Key
  <2>3. report \in Report
    BY <2>2, LimitAssumption DEF Report
  <2>4. [clean.reports EXCEPT ![req.scope] = report] \in [Scope -> Report]
    BY <1>1, <2>3
  <2>5. restored \in Document
    BY <2>1, <2>4 DEF Document
  <2>6. RestoreNative(doc, req, now) = IF affected = {} THEN Result(clean, {}, {})
                                       ELSE Result(restored, affected, affected)
    BY DEF RestoreNative, clean
  <2> HIDE DEF affected, restored
  <2> QED
    BY <1>1, <1>8, <2>2, <2>5, <2>6 DEF Apply, Result
<1>9. CASE req.op = "acknowledge"
  <2>1. [clean.reports EXCEPT ![req.scope] = NoReport] \in [Scope -> Report]
    BY <1>1 DEF NoReport, Report
  <2>2. [clean EXCEPT !.reports[req.scope] = NoReport] \in Document
    BY <1>1, <2>1 DEF Document
  <2>3. Acknowledge(doc, req, now) \in
          {Result(clean, {}, {}),
           Result([clean EXCEPT !.reports[req.scope] = NoReport], {req.scope}, {})}
    BY DEF Acknowledge, clean
  <2> QED
    BY <1>1, <1>3, <1>9, <2>2, <2>3 DEF Apply, Result
<1> QED
  BY <1>3, <1>4, <1>5, <1>6, <1>7, <1>8, <1>9 DEF Operation
----------------------------------------------------------------------------
(* What pruning and the mutations do to each row of a document.             *)

(* Pruning, row by row: a rate needs an activation that outlives it.        *)
LEMMA PruneRows ==
  ASSUME NEW doc \in Document, NEW now \in Nat
  PROVE  /\ \A k \in Key :
              /\ Prune(doc, now).activations[k] =
                   IF doc.activations[k] > now THEN doc.activations[k] ELSE NoLease
              /\ Prune(doc, now).rates[k] =
                   IF doc.rates[k] > now /\ doc.rates[k] <= doc.activations[k]
                   THEN doc.rates[k] ELSE NoLease
         /\ \A s \in Scope :
              Prune(doc, now).reports[s] =
                IF doc.reports[s].expires > now THEN doc.reports[s] ELSE NoReport
BY DEF Prune, PruneLeases

(* The rows of a document are numbers.                                      *)
LEMMA RowTypes ==
  ASSUME NEW doc \in Document
  PROVE  /\ \A k \in Key : doc.activations[k] \in Nat /\ doc.rates[k] \in Nat
         /\ \A s \in Scope : doc.reports[s] \in Report /\ doc.reports[s].expires \in Nat
<1>1. \A s \in Scope : doc.reports[s] \in Report
  BY DEF Document
<1> QED
  BY <1>1 DEF Document, Report

(* Enabling, row by row: a rate beyond the new expiry is dropped.           *)
LEMMA EnableRows ==
  ASSUME NEW doc \in Document, NEW req \in Request, NEW now \in Nat
  PROVE  LET clean  == Prune(doc, now)
             result == Enable(doc, req, now)
             expiry == now + req.duration
         IN  /\ result.changed = Named(req) /\ result.reset = Named(req)
             /\ result.doc.reports = clean.reports
             /\ \A k \in Key :
                  /\ result.doc.activations[k] =
                       IF k \in Named(req) THEN expiry ELSE clean.activations[k]
                  /\ result.doc.rates[k] =
                       IF k \in Named(req) /\ clean.rates[k] > expiry
                       THEN NoLease ELSE clean.rates[k]
<1> DEFINE clean  == Prune(doc, now)
           expiry == now + req.duration
           acts   == [k \in Key |-> IF k \in Named(req) THEN expiry ELSE clean.activations[k]]
           rates  == [k \in Key |-> IF k \in Named(req) /\ clean.rates[k] > expiry
                                    THEN NoLease ELSE clean.rates[k]]
<1>1. clean \in Document
  BY PruneType
<1>2. Enable(doc, req, now) =
        Result([clean EXCEPT !.activations = acts, !.rates = rates], Named(req), Named(req))
  BY DEF Enable
<1>3. /\ \A k \in Key : acts[k] = IF k \in Named(req) THEN expiry ELSE clean.activations[k]
      /\ \A k \in Key : rates[k] = IF k \in Named(req) /\ clean.rates[k] > expiry
                                   THEN NoLease ELSE clean.rates[k]
  OBVIOUS
<1> HIDE DEF acts, rates, clean, expiry
<1>4. LET new == [clean EXCEPT !.activations = acts, !.rates = rates]
      IN  new.activations = acts /\ new.rates = rates /\ new.reports = clean.reports
  BY <1>1 DEF Document
<1>5. /\ Enable(doc, req, now).reset = Named(req) /\ Enable(doc, req, now).doc = [clean EXCEPT !.activations = acts, !.rates = rates]
      /\ Enable(doc, req, now).changed = Named(req)
  BY <1>2 DEF Result
<1>6. /\ Enable(doc, req, now).doc.activations = acts
      /\ Enable(doc, req, now).doc.rates = rates
      /\ Enable(doc, req, now).doc.reports = clean.reports
  BY <1>4, <1>5
<1> QED
  BY <1>3, <1>5, <1>6 DEF clean, expiry

(* Disabling, row by row.                                                   *)
LEMMA DisableRows ==
  ASSUME NEW doc \in Document, NEW req \in Request, NEW now \in Nat
  PROVE  LET clean  == Prune(doc, now)
             result == Disable(doc, req, now)
         IN  /\ result.reset = Named(req)
             /\ result.doc.reports = clean.reports
             /\ \A k \in Key :
                  /\ result.doc.activations[k] =
                       IF k \in Named(req) THEN NoLease ELSE clean.activations[k]
                  /\ result.doc.rates[k] = IF k \in Named(req) THEN NoLease ELSE clean.rates[k]
<1> DEFINE clean == Prune(doc, now)
           acts  == [k \in Key |-> IF k \in Named(req) THEN NoLease ELSE clean.activations[k]]
           rates == [k \in Key |-> IF k \in Named(req) THEN NoLease ELSE clean.rates[k]]
<1>1. clean \in Document
  BY PruneType
<1>2. Disable(doc, req, now) =
        Result([clean EXCEPT !.activations = acts, !.rates = rates],
               Named(req) \cap Live(clean.activations), Named(req))
  BY DEF Disable
<1>3. /\ \A k \in Key : acts[k] = IF k \in Named(req) THEN NoLease ELSE clean.activations[k]
      /\ \A k \in Key : rates[k] = IF k \in Named(req) THEN NoLease ELSE clean.rates[k]
  OBVIOUS
<1> HIDE DEF acts, rates, clean
<1>4. LET new == [clean EXCEPT !.activations = acts, !.rates = rates]
      IN  new.activations = acts /\ new.rates = rates /\ new.reports = clean.reports
  BY <1>1 DEF Document
<1>5. /\ Disable(doc, req, now).reset = Named(req) /\ Disable(doc, req, now).doc = [clean EXCEPT !.activations = acts, !.rates = rates]
  BY <1>2 DEF Result
<1>6. /\ Disable(doc, req, now).doc.activations = acts
      /\ Disable(doc, req, now).doc.rates = rates
      /\ Disable(doc, req, now).doc.reports = clean.reports
  BY <1>4, <1>5
<1> QED
  BY <1>3, <1>5, <1>6 DEF clean

(* Setting rates, row by row: they end with the activation at the latest.   *)
LEMMA SetRateRows ==
  ASSUME NEW doc \in Document, NEW req \in Request, NEW now \in Nat
  PROVE  LET clean    == Prune(doc, now)
             result   == SetRate(doc, req, now)
             asked    == now + req.duration
         IN  /\ result.changed = Named(req) /\ result.reset = Named(req)
             /\ result.doc.reports = clean.reports
             /\ result.doc.activations = clean.activations
             /\ \A k \in Key :
                  result.doc.rates[k] =
                    IF k \in Named(req)
                    THEN IF asked <= clean.activations[k] THEN asked ELSE clean.activations[k]
                    ELSE clean.rates[k]
<1> DEFINE clean == Prune(doc, now)
           asked == now + req.duration
           clamp(k) == IF asked <= clean.activations[k] THEN asked ELSE clean.activations[k]
           rates == [k \in Key |-> IF k \in Named(req) THEN clamp(k) ELSE clean.rates[k]]
<1>1. clean \in Document
  BY PruneType
<1>2. SetRate(doc, req, now) = Result([clean EXCEPT !.rates = rates], Named(req), Named(req))
  BY DEF SetRate
<1>3. \A k \in Key : rates[k] = IF k \in Named(req) THEN clamp(k) ELSE clean.rates[k]
  OBVIOUS
<1> HIDE DEF rates, clean, asked
<1>4. LET new == [clean EXCEPT !.rates = rates]
      IN  /\ new.activations = clean.activations /\ new.rates = rates
          /\ new.reports = clean.reports
  BY <1>1 DEF Document
<1>5. /\ SetRate(doc, req, now).reset = Named(req) /\ SetRate(doc, req, now).doc = [clean EXCEPT !.rates = rates]
      /\ SetRate(doc, req, now).changed = Named(req)
  BY <1>2 DEF Result
<1>6. /\ SetRate(doc, req, now).doc.activations = clean.activations
      /\ SetRate(doc, req, now).doc.rates = rates
      /\ SetRate(doc, req, now).doc.reports = clean.reports
  BY <1>4, <1>5
<1> QED
  BY <1>3, <1>5, <1>6 DEF clean, asked

(* Clearing rates, row by row.                                              *)
LEMMA ClearRateRows ==
  ASSUME NEW doc \in Document, NEW req \in Request, NEW now \in Nat
  PROVE  LET clean  == Prune(doc, now)
             result == ClearRate(doc, req, now)
         IN  /\ result.reset = Named(req)
             /\ result.doc.reports = clean.reports
             /\ result.doc.activations = clean.activations
             /\ \A k \in Key :
                  result.doc.rates[k] = IF k \in Named(req) THEN NoLease ELSE clean.rates[k]
<1> DEFINE clean == Prune(doc, now)
           rates == [k \in Key |-> IF k \in Named(req) THEN NoLease ELSE clean.rates[k]]
<1>1. clean \in Document
  BY PruneType
<1>2. ClearRate(doc, req, now) =
        Result([clean EXCEPT !.rates = rates], Named(req) \cap Live(clean.rates), Named(req))
  BY DEF ClearRate
<1>3. \A k \in Key : rates[k] = IF k \in Named(req) THEN NoLease ELSE clean.rates[k]
  OBVIOUS
<1> HIDE DEF rates, clean
<1>4. LET new == [clean EXCEPT !.rates = rates]
      IN  /\ new.activations = clean.activations /\ new.rates = rates
          /\ new.reports = clean.reports
  BY <1>1 DEF Document
<1>5. /\ ClearRate(doc, req, now).reset = Named(req) /\ ClearRate(doc, req, now).doc = [clean EXCEPT !.rates = rates]
  BY <1>2 DEF Result
<1>6. /\ ClearRate(doc, req, now).doc.activations = clean.activations
      /\ ClearRate(doc, req, now).doc.rates = rates
      /\ ClearRate(doc, req, now).doc.reports = clean.reports
  BY <1>4, <1>5
<1> QED
  BY <1>3, <1>5, <1>6 DEF clean

(* Restoring, row by row: the scope is emptied, and a report may begin.     *)
LEMMA RestoreRows ==
  ASSUME NEW doc \in Document, NEW req \in Request, NEW now \in Nat
  PROVE  LET clean    == Prune(doc, now)
             result   == RestoreNative(doc, req, now)
             affected == Live(clean.activations) \cap InScope(req.scope)
         IN  /\ result.reset = affected
             /\ \A k \in Key :
                  /\ result.doc.activations[k] =
                       IF k \in affected THEN NoLease ELSE clean.activations[k]
                  /\ result.doc.rates[k] = IF k \in affected THEN NoLease ELSE clean.rates[k]
             /\ \A s \in Scope :
                  \/ result.doc.reports[s] = clean.reports[s]
                  \/ result.doc.reports[s].expires = now + ReportSeconds
<1> DEFINE clean    == Prune(doc, now)
           affected == Live(clean.activations) \cap InScope(req.scope)
           report == [at |-> now, targets |-> {k[2] : k \in affected},
                      expires |-> now + ReportSeconds]
           without(leases) == [k \in Key |-> IF k \in affected THEN NoLease ELSE leases[k]]
           acts     == without(clean.activations)
           rates    == without(clean.rates)
           reports  == [clean.reports EXCEPT ![req.scope] = report]
           restored == [activations |-> acts, rates |-> rates, reports |-> reports]
<1>1. clean \in Document /\ clean.reports \in [Scope -> Report] /\ req.scope \in Scope
  BY PruneType DEF Document, Request
<1>2. RestoreNative(doc, req, now) = IF affected = {} THEN Result(clean, {}, {})
                                     ELSE Result(restored, affected, affected)
  BY DEF RestoreNative
<1>3. /\ \A k \in Key : acts[k] = IF k \in affected THEN NoLease ELSE clean.activations[k]
      /\ \A k \in Key : rates[k] = IF k \in affected THEN NoLease ELSE clean.rates[k]
  OBVIOUS
<1>4. report.expires = now + ReportSeconds
  OBVIOUS
<1> HIDE DEF acts, rates, clean, affected, report
<1>5. \A s \in Scope : reports[s] = clean.reports[s] \/ reports[s].expires = now + ReportSeconds
  BY <1>1, <1>4
<1>6. restored.activations = acts /\ restored.rates = rates /\ restored.reports = reports
  OBVIOUS
<1> HIDE DEF reports, restored
<1>7. CASE affected = {}
  <2>1. RestoreNative(doc, req, now) = Result(clean, {}, {})
    BY <1>2, <1>7
  <2> QED
    BY <1>7, <2>1 DEF Result, clean, affected
<1>8. CASE affected # {}
  <2>1. RestoreNative(doc, req, now) = Result(restored, affected, affected)
    BY <1>2, <1>8
  <2> QED
    BY <1>3, <1>5, <1>6, <2>1 DEF Result, clean, affected
<1> QED
  BY <1>7, <1>8

(* Acknowledging, row by row: only the report with that id is closed.       *)
LEMMA AcknowledgeRows ==
  ASSUME NEW doc \in Document, NEW req \in Request, NEW now \in Nat
  PROVE  LET clean  == Prune(doc, now)
             result == Acknowledge(doc, req, now)
         IN  /\ result.reset = {}
             /\ result.doc.activations = clean.activations
             /\ result.doc.rates = clean.rates
             /\ \A s \in Scope :
                  \/ result.doc.reports[s] = clean.reports[s]
                  \/ /\ result.doc.reports[s] = NoReport
                     /\ req.scope = s /\ req.id = IdOf(clean.reports[s])
<1> DEFINE clean   == Prune(doc, now)
           reports == [clean.reports EXCEPT ![req.scope] = NoReport]
           closed  == [clean EXCEPT !.reports = reports]
<1>1. clean \in Document /\ clean.reports \in [Scope -> Report] /\ req.scope \in Scope
  BY PruneType DEF Document, Request
<1>2. \/ Acknowledge(doc, req, now) = Result(clean, {}, {})
      \/ /\ Acknowledge(doc, req, now) =
              Result([clean EXCEPT !.reports[req.scope] = NoReport], {req.scope}, {})
         /\ IdOf(clean.reports[req.scope]) = req.id
  BY DEF Acknowledge
<1> HIDE DEF clean
<1>3. [clean EXCEPT !.reports[req.scope] = NoReport] = closed
  BY <1>1 DEF Document
<1>4. /\ closed.activations = clean.activations /\ closed.rates = clean.rates
      /\ closed.reports = reports
  BY <1>1 DEF Document
<1>5. \A s \in Scope : reports[s] = IF s = req.scope THEN NoReport ELSE clean.reports[s]
  BY <1>1
<1> HIDE DEF closed, reports
<1>6. CASE Acknowledge(doc, req, now) = Result(clean, {}, {})
  BY <1>6 DEF Result, clean
<1>7. CASE /\ Acknowledge(doc, req, now) = Result(closed, {req.scope}, {})
           /\ IdOf(clean.reports[req.scope]) = req.id
  BY <1>4, <1>5, <1>7 DEF Result, clean
<1> QED
  BY <1>2, <1>3, <1>6, <1>7
----------------------------------------------------------------------------
(* What a mutation does to a document, and when a document is bounded.      *)

(* The capacities hold of a document.                                       *)
Capped(doc) ==
  LET live == Live(doc.activations)
  IN  /\ IsFiniteSet(live)
      /\ Cardinality(live) <= MaxTargetsTotal
      /\ \A s \in Scope : Cardinality(live \cap InScope(s)) <= MaxTargetsPerScope

(* No report outlives one that would be made now.                           *)
ReportsBounded(doc, now) == \A s \in Scope : doc.reports[s].expires <= now + ReportSeconds

(* No rate lease outlives its activation lease.                             *)
Clamped(doc) == \A k \in Key : doc.rates[k] <= doc.activations[k]

(* The keys whose leases a mutation may change.                             *)
Touches(req, k) ==
  \/ req.op # "acknowledge" /\ k \in Named(req)
  \/ req.op = "restore" /\ k \in InScope(req.scope)

(* Two leases that are the same now and later.                              *)
SameLease(a, b, now) == a = b \/ (a <= now /\ b <= now)

(* What the locals of a commit say of the document they were computed from. *)
Purpose(doc, req, locals, now) ==
  LET new == locals.candidate
  IN  /\ Clamped(new)
      /\ req.op \in {"enable", "renew", "set_rate"} => locals.changed \subseteq Key
      /\ \A k \in Key \ locals.reset :
           new.activations[k] <= doc.activations[k] /\ new.rates[k] <= doc.rates[k]
      /\ \A k \in Key : ~Touches(req, k) =>
           /\ SameLease(new.activations[k], doc.activations[k], now)
           /\ SameLease(new.rates[k], doc.rates[k], now)
      /\ \A k \in Key : Touches(req, k) /\ req.op \in {"disable", "restore"} =>
           new.activations[k] = NoLease
      /\ \A k \in Named(req) :
           /\ req.op \in {"enable", "renew"} =>
                \/ SameLease(new.rates[k], doc.rates[k], now)
                \/ new.activations[k] < doc.rates[k]
           /\ req.op = "set_rate" => new.rates[k] # NoLease
      /\ \A s \in Scope :
           \/ new.reports[s].expires >= doc.reports[s].expires
           \/ doc.reports[s].expires <= now
           \/ req.op = "acknowledge" /\ req.scope = s /\ req.id = IdOf(doc.reports[s])

(* What pruning leaves of a clamped document and of its result.             *)
LEMMA ResultRows ==
  ASSUME NEW doc \in Document, Clamped(doc), NEW now \in Nat, NEW new \in Document,
         NEW clean, clean = Prune(doc, now), NEW pruned, pruned = Prune(new, now)
  PROVE  /\ \A k \in Key :
              /\ doc.activations[k] \in Nat /\ doc.rates[k] \in Nat
              /\ new.activations[k] \in Nat /\ new.rates[k] \in Nat
              /\ doc.rates[k] <= doc.activations[k]
              /\ clean.activations[k] = IF doc.activations[k] > now THEN doc.activations[k] ELSE 0
              /\ clean.rates[k] = IF doc.rates[k] > now THEN doc.rates[k] ELSE 0
              /\ pruned.activations[k] = IF new.activations[k] > now THEN new.activations[k] ELSE 0
              /\ pruned.rates[k] = IF new.rates[k] > now /\ new.rates[k] <= new.activations[k]
                                   THEN new.rates[k] ELSE 0
         /\ \A s \in Scope :
              /\ doc.reports[s].expires \in Nat /\ new.reports[s].expires \in Nat
              /\ clean.reports[s] = IF doc.reports[s].expires > now
                                    THEN doc.reports[s] ELSE NoReport
              /\ pruned.reports[s] = IF new.reports[s].expires > now
                                     THEN new.reports[s] ELSE NoReport
<1>1. \A k \in Key : doc.rates[k] <= doc.activations[k]
  BY DEF Clamped
<1> QED
  BY <1>1, RowTypes, PruneRows DEF NoLease

(* In a pruned document no rate outlives its activation.                    *)
LEMMA PrunedClamped ==
  ASSUME NEW doc \in Document, NEW now \in Nat
  PROVE  Clamped(Prune(doc, now))
BY PruneRows, RowTypes DEF Clamped, NoLease

(* The keys a request names.                                                *)
LEMMA NamedIs ==
  ASSUME NEW req
  PROVE  Named(req) \subseteq Key /\ Named(req) \subseteq InScope(req.scope)
BY DEF Named, InScope

(* A mutation leaves the reports of others, save one that it makes, or that *)
(* its reader acknowledges.                                                 *)
LEMMA ReportRows ==
  ASSUME NEW doc \in Document, NEW req \in Request, NEW now \in Nat, NEW s \in Scope
  PROVE  LET clean  == Prune(doc, now)
             new == Apply(doc, req, now).doc.reports[s]
         IN  \/ new = clean.reports[s]
             \/ new.expires = now + ReportSeconds
             \/ /\ new = NoReport /\ req.op = "acknowledge"
                /\ req.scope = s /\ req.id = IdOf(clean.reports[s])
<1>1. req.op \in Operation
  BY DEF Request
<1>2. CASE req.op \in {"enable", "renew"}
  BY <1>2, EnableRows DEF Apply
<1>3. CASE req.op = "disable"
  BY <1>3, DisableRows DEF Apply
<1>4. CASE req.op = "set_rate"
  BY <1>4, SetRateRows DEF Apply
<1>5. CASE req.op = "clear_rate"
  BY <1>5, ClearRateRows DEF Apply
<1>6. CASE req.op = "restore"
  BY <1>6, RestoreRows DEF Apply
<1>7. CASE req.op = "acknowledge"
  BY <1>7, AcknowledgeRows DEF Apply
<1> QED
  BY <1>1, <1>2, <1>3, <1>4, <1>5, <1>6, <1>7 DEF Operation

(* Every mutation serves its request.                                       *)
LEMMA PurposeHolds ==
  ASSUME NEW doc \in Document, Clamped(doc), NEW now \in Nat, ReportsBounded(doc, now),
         NEW req \in Request, ~Rejected(doc, req, now), NEW locals,
         locals.candidate = Prune(Apply(doc, req, now).doc, now),
         locals.changed = Apply(doc, req, now).changed,
         locals.reset = Apply(doc, req, now).reset
  PROVE  Purpose(doc, req, locals, now)
<1>1. PICK result : result = Apply(doc, req, now)
  OBVIOUS
<1>2. PICK clean : clean = Prune(doc, now)
  OBVIOUS
<1>3. PICK pruned : pruned = Prune(result.doc, now)
  OBVIOUS
<1>4. result.doc \in Document /\ req.duration \in Nat /\ req.duration > 0 /\ req.op \in Operation
  BY <1>1, ApplyType DEF Request
<1>5. /\ \A k \in Key :
           /\ doc.activations[k] \in Nat /\ doc.rates[k] \in Nat
           /\ result.doc.activations[k] \in Nat /\ result.doc.rates[k] \in Nat
           /\ doc.rates[k] <= doc.activations[k]
           /\ clean.activations[k] = IF doc.activations[k] > now THEN doc.activations[k] ELSE 0
           /\ clean.rates[k] = IF doc.rates[k] > now THEN doc.rates[k] ELSE 0
           /\ pruned.activations[k] = IF result.doc.activations[k] > now
                                      THEN result.doc.activations[k] ELSE 0
           /\ pruned.rates[k] = IF /\ result.doc.rates[k] > now
                                   /\ result.doc.rates[k] <= result.doc.activations[k]
                                THEN result.doc.rates[k] ELSE 0
      /\ \A s \in Scope :
           /\ doc.reports[s].expires \in Nat /\ result.doc.reports[s].expires \in Nat
           /\ clean.reports[s] = IF doc.reports[s].expires > now THEN doc.reports[s] ELSE NoReport
           /\ pruned.reports[s] = IF result.doc.reports[s].expires > now
                                  THEN result.doc.reports[s] ELSE NoReport
  BY <1>2, <1>3, <1>4, ResultRows
<1>6. locals.candidate = pruned /\ locals.changed = result.changed /\ locals.reset = result.reset
  BY <1>1, <1>3
<1>7. Clamped(pruned)
  BY <1>3, <1>4, PrunedClamped
<1>8. ASSUME NEW s \in Scope
      PROVE  \/ pruned.reports[s].expires >= doc.reports[s].expires
             \/ doc.reports[s].expires <= now
             \/ req.op = "acknowledge" /\ req.scope = s /\ req.id = IdOf(doc.reports[s])
  <2>1. \/ result.doc.reports[s] = clean.reports[s]
        \/ result.doc.reports[s].expires = now + ReportSeconds
        \/ /\ result.doc.reports[s] = NoReport /\ req.op = "acknowledge"
           /\ req.scope = s /\ req.id = IdOf(clean.reports[s])
    BY <1>1, <1>2, ReportRows
  <2>2. doc.reports[s].expires <= now + ReportSeconds /\ ReportSeconds \in Nat /\ ReportSeconds > 0
    BY LimitAssumption DEF ReportsBounded
  <2>3. CASE doc.reports[s].expires <= now
    BY <2>3
  <2>4. CASE doc.reports[s].expires > now
    <3>1. clean.reports[s] = doc.reports[s]
      BY <1>5, <2>4
    <3>2. CASE result.doc.reports[s] = clean.reports[s]
      BY <1>5, <2>4, <3>1, <3>2
    <3>3. CASE result.doc.reports[s].expires = now + ReportSeconds
      <4>1. now + ReportSeconds > now
        BY <2>2
      <4> QED
        BY <1>5, <2>2, <3>3, <4>1
    <3> QED
      BY <2>1, <3>1, <3>2, <3>3
  <2>5. doc.reports[s].expires \in Nat
    BY <1>5
  <2> QED
    BY <2>3, <2>4, <2>5
<1>9. SUFFICES
        /\ req.op \in {"enable", "renew", "set_rate"} => result.changed \subseteq Key
        /\ \A k \in Key \ result.reset :
             pruned.activations[k] <= doc.activations[k] /\ pruned.rates[k] <= doc.rates[k]
        /\ \A k \in Key : ~Touches(req, k) =>
             /\ SameLease(pruned.activations[k], doc.activations[k], now)
             /\ SameLease(pruned.rates[k], doc.rates[k], now)
        /\ \A k \in Key : Touches(req, k) /\ req.op \in {"disable", "restore"} =>
             pruned.activations[k] = NoLease
        /\ \A k \in Named(req) :
             /\ req.op \in {"enable", "renew"} =>
                  \/ SameLease(pruned.rates[k], doc.rates[k], now)
                  \/ pruned.activations[k] < doc.rates[k]
             /\ req.op = "set_rate" => pruned.rates[k] # NoLease
  BY <1>6, <1>7, <1>8 DEF Purpose
<1>10. Named(req) \subseteq Key /\ Named(req) \subseteq InScope(req.scope)
  BY NamedIs
<1>11. CASE req.op \in {"enable", "renew"}
  <2>1. /\ result.changed = Named(req) /\ result.reset = Named(req)
        /\ \A k \in Key :
             /\ result.doc.activations[k] =
                  IF k \in Named(req) THEN now + req.duration ELSE clean.activations[k]
             /\ result.doc.rates[k] =
                  IF k \in Named(req) /\ clean.rates[k] > now + req.duration
                  THEN 0 ELSE clean.rates[k]
    BY <1>1, <1>2, <1>11, EnableRows DEF Apply, NoLease
  <2>2. \A k \in Key : Touches(req, k) <=> k \in Named(req)
    BY <1>11 DEF Touches
  <2>3. ASSUME NEW k \in Key, k \notin Named(req)
        PROVE  /\ pruned.activations[k] <= doc.activations[k] /\ pruned.rates[k] <= doc.rates[k]
               /\ SameLease(pruned.activations[k], doc.activations[k], now)
               /\ SameLease(pruned.rates[k], doc.rates[k], now)
    BY <1>5, <2>1, <2>3 DEF SameLease
  <2>4. ASSUME NEW k \in Named(req)
        PROVE  \/ SameLease(pruned.rates[k], doc.rates[k], now)
               \/ pruned.activations[k] < doc.rates[k]
    <3>1. k \in Key
      BY <1>10
    <3>2. PICK expiry \in Nat : expiry = now + req.duration /\ expiry > now
      BY <1>4
    <3>3. /\ result.doc.activations[k] = expiry
          /\ result.doc.rates[k] = IF clean.rates[k] > expiry THEN 0 ELSE clean.rates[k]
      BY <2>1, <3>1, <3>2
    <3> QED
      BY <1>5, <3>1, <3>2, <3>3 DEF SameLease
  <2> QED
    BY <1>10, <1>11, <2>1, <2>2, <2>3, <2>4
<1>12. CASE req.op = "disable"
  <2>1. /\ result.reset = Named(req)
        /\ \A k \in Key :
             /\ result.doc.activations[k] = IF k \in Named(req) THEN 0 ELSE clean.activations[k]
             /\ result.doc.rates[k] = IF k \in Named(req) THEN 0 ELSE clean.rates[k]
    BY <1>1, <1>2, <1>12, DisableRows DEF Apply, NoLease
  <2>2. \A k \in Key : Touches(req, k) <=> k \in Named(req)
    BY <1>12 DEF Touches
  <2>3. ASSUME NEW k \in Key, k \notin Named(req)
        PROVE  /\ pruned.activations[k] <= doc.activations[k] /\ pruned.rates[k] <= doc.rates[k]
               /\ SameLease(pruned.activations[k], doc.activations[k], now)
               /\ SameLease(pruned.rates[k], doc.rates[k], now)
    BY <1>5, <2>1, <2>3 DEF SameLease
  <2>4. ASSUME NEW k \in Named(req) PROVE pruned.activations[k] = NoLease
    BY <1>5, <1>10, <2>1 DEF NoLease
  <2> QED
    BY <1>12, <2>1, <2>2, <2>3, <2>4
<1>13. CASE req.op = "set_rate"
  <2>1. /\ result.changed = Named(req) /\ result.reset = Named(req)
        /\ result.doc.activations = clean.activations
        /\ \A k \in Key :
             result.doc.rates[k] =
               IF k \in Named(req)
               THEN IF now + req.duration <= clean.activations[k]
                    THEN now + req.duration ELSE clean.activations[k]
               ELSE clean.rates[k]
    BY <1>1, <1>2, <1>13, SetRateRows DEF Apply
  <2>2. \A k \in Key : Touches(req, k) <=> k \in Named(req)
    BY <1>13 DEF Touches
  <2>3. ASSUME NEW k \in Key, k \notin Named(req)
        PROVE  /\ pruned.activations[k] <= doc.activations[k] /\ pruned.rates[k] <= doc.rates[k]
               /\ SameLease(pruned.activations[k], doc.activations[k], now)
               /\ SameLease(pruned.rates[k], doc.rates[k], now)
    BY <1>5, <2>1, <2>3 DEF SameLease
  <2>4. ASSUME NEW k \in Named(req) PROVE pruned.rates[k] # NoLease
    <3>1. k \in Key
      BY <1>10
    <3>2. clean.activations[k] # 0
      BY <1>2, <1>13 DEF Rejected, SetRateRejected, Live, NoLease
    <3>3. PICK expiry \in Nat : expiry = now + req.duration /\ expiry > now
      BY <1>4
    <3>4. /\ result.doc.activations[k] = clean.activations[k]
          /\ result.doc.rates[k] = IF expiry <= clean.activations[k]
                                   THEN expiry ELSE clean.activations[k]
      BY <2>1, <3>1, <3>3
    <3> QED
      BY <1>5, <3>1, <3>2, <3>3, <3>4 DEF NoLease
  <2> QED
    BY <1>10, <1>13, <2>1, <2>2, <2>3, <2>4
<1>14. CASE req.op = "clear_rate"
  <2>1. /\ result.reset = Named(req) /\ result.doc.activations = clean.activations
        /\ \A k \in Key : result.doc.rates[k] = IF k \in Named(req) THEN 0 ELSE clean.rates[k]
    BY <1>1, <1>2, <1>14, ClearRateRows DEF Apply, NoLease
  <2>2. \A k \in Key : Touches(req, k) <=> k \in Named(req)
    BY <1>14 DEF Touches
  <2>3. ASSUME NEW k \in Key, k \notin Named(req)
        PROVE  /\ pruned.activations[k] <= doc.activations[k] /\ pruned.rates[k] <= doc.rates[k]
               /\ SameLease(pruned.activations[k], doc.activations[k], now)
               /\ SameLease(pruned.rates[k], doc.rates[k], now)
    BY <1>5, <2>1, <2>3 DEF SameLease
  <2> QED
    BY <1>14, <2>1, <2>2, <2>3
<1>15. CASE req.op = "restore"
  <2> DEFINE affected == Live(clean.activations) \cap InScope(req.scope)
  <2>1. /\ result.reset = affected
        /\ \A k \in Key :
             /\ result.doc.activations[k] = IF k \in affected THEN 0 ELSE clean.activations[k]
             /\ result.doc.rates[k] = IF k \in affected THEN 0 ELSE clean.rates[k]
    BY <1>1, <1>2, <1>15, RestoreRows DEF Apply, NoLease
  <2>2. \A k \in Key : Touches(req, k) <=> k \in InScope(req.scope)
    BY <1>10, <1>15 DEF Touches
  <2>3. \A k \in Key : k \in affected <=> clean.activations[k] # 0 /\ k \in InScope(req.scope)
    BY DEF Live, NoLease
  <2> HIDE DEF affected
  <2>4. ASSUME NEW k \in Key, k \notin affected
        PROVE  /\ pruned.activations[k] <= doc.activations[k] /\ pruned.rates[k] <= doc.rates[k]
               /\ SameLease(pruned.activations[k], doc.activations[k], now)
               /\ SameLease(pruned.rates[k], doc.rates[k], now)
    BY <1>5, <2>1, <2>4 DEF SameLease
  <2>5. ASSUME NEW k \in Key, k \in InScope(req.scope) PROVE pruned.activations[k] = NoLease
    BY <1>5, <2>1, <2>3, <2>5 DEF NoLease
  <2> QED
    BY <1>15, <2>1, <2>2, <2>3, <2>4, <2>5
<1>16. CASE req.op = "acknowledge"
  <2>1. /\ result.doc.activations = clean.activations /\ result.doc.rates = clean.rates
    BY <1>1, <1>2, <1>16, AcknowledgeRows DEF Apply
  <2>2. ASSUME NEW k \in Key
        PROVE  /\ pruned.activations[k] <= doc.activations[k] /\ pruned.rates[k] <= doc.rates[k]
               /\ SameLease(pruned.activations[k], doc.activations[k], now)
               /\ SameLease(pruned.rates[k], doc.rates[k], now)
    BY <1>5, <2>1 DEF SameLease
  <2> QED
    BY <1>16, <2>1, <2>2
<1> QED
  BY <1>4, <1>11, <1>12, <1>13, <1>14, <1>15, <1>16 DEF Operation
----------------------------------------------------------------------------
(* The capacities and the reports of a document.                            *)

(* A registry with fewer live leases is within the capacities too.          *)
LEMMA CappedSubset ==
  ASSUME NEW a, NEW b, Capped(b), Live(a.activations) \subseteq Live(b.activations)
  PROVE  Capped(a)
<1> DEFINE few  == Live(a.activations)
           many == Live(b.activations)
<1>1. IsFiniteSet(many) /\ Cardinality(many) <= MaxTargetsTotal
  BY DEF Capped
<1>2. IsFiniteSet(few) /\ Cardinality(few) <= Cardinality(many)
  BY <1>1, FS_Subset
<1>3. ASSUME NEW s \in Scope PROVE Cardinality(few \cap InScope(s)) <= MaxTargetsPerScope
  <2> DEFINE fewHere  == few \cap InScope(s)
             manyHere == many \cap InScope(s)
  <2>1. Cardinality(manyHere) <= MaxTargetsPerScope
    BY DEF Capped
  <2>2. IsFiniteSet(manyHere) /\ fewHere \subseteq manyHere
    BY <1>1, FS_Subset
  <2>3. IsFiniteSet(fewHere) /\ Cardinality(fewHere) <= Cardinality(manyHere)
    BY <2>2, FS_Subset
  <2>4. Cardinality(fewHere) \in Nat /\ Cardinality(manyHere) \in Nat
    BY <2>2, <2>3, FS_CardinalityType
  <2> HIDE DEF fewHere, manyHere
  <2>5. Cardinality(fewHere) <= MaxTargetsPerScope
    BY <2>1, <2>3, <2>4, LimitAssumption
  <2> QED
    BY <2>5 DEF fewHere
<1>4. Cardinality(few) \in Nat /\ Cardinality(many) \in Nat
  BY <1>1, <1>2, FS_CardinalityType
<1>5. Cardinality(few) <= MaxTargetsTotal
  <2> HIDE DEF few, many
  <2> QED
    BY <1>1, <1>2, <1>4, LimitAssumption
<1> QED
  BY <1>2, <1>3, <1>5 DEF Capped

(* Nothing stored is within the capacities.                                 *)
LEMMA EmptyCapped == Capped(EmptyDocument)
<1>1. Live(EmptyDocument.activations) = {}
  BY DEF Live, EmptyDocument
<1>2. \A s \in Scope : {} \cap InScope(s) = {}
  OBVIOUS
<1>3. IsFiniteSet({}) /\ Cardinality({}) = 0
  BY FS_EmptySet
<1> QED
  BY <1>1, <1>2, <1>3, LimitAssumption DEF Capped

(* Pruning adds no lease.                                                   *)
LEMMA PruneCapped ==
  ASSUME NEW doc \in Document, NEW now \in Nat, Capped(doc)
  PROVE  Capped(Prune(doc, now))
<1>1. Live(Prune(doc, now).activations) \subseteq Live(doc.activations)
  BY PruneRows DEF Live
<1> QED
  BY <1>1, CappedSubset

(* A request of finitely many targets names finitely many keys.             *)
LEMMA NamedFinite ==
  ASSUME NEW req \in Request, IsFiniteSet(req.targets)
  PROVE  IsFiniteSet(Named(req))
<1>1. IsFiniteSet({req.scope} \X req.targets)
  BY FS_Singleton, FS_Product
<1>2. Named(req) \subseteq {req.scope} \X req.targets
  BY DEF Named, Key
<1> QED
  BY <1>1, <1>2, FS_Subset

(* What is not rejected leaves the capacities respected.                    *)
LEMMA ApplyCapped ==
  ASSUME NEW doc \in Document, NEW now \in Nat, Capped(doc), NEW req \in Request,
         IsFiniteSet(req.targets), ~Rejected(doc, req, now)
  PROVE  Capped(Apply(doc, req, now).doc)
<1> DEFINE clean  == Prune(doc, now)
           new    == Apply(doc, req, now).doc
           active == Live(clean.activations)
           fresh  == Named(req) \ active
<1>1. clean \in Document /\ Capped(clean) /\ req.op \in Operation /\ req.scope \in Scope
  BY PruneType, PruneCapped DEF Request
<1>2. CASE req.op \in {"enable", "renew"}
  <2>1. \A k \in Key : k \notin Named(req) => new.activations[k] = clean.activations[k]
    BY <1>2, EnableRows DEF Apply
  <2>2. Live(new.activations) \subseteq active \cup fresh
    BY <2>1 DEF Live
  <2>3. CASE fresh = {}
    BY <1>1, <2>2, <2>3, CappedSubset
  <2>4. CASE fresh # {}
    <3> DEFINE later == Live(new.activations)
               all   == active \cup fresh
               here  == (active \cap InScope(req.scope)) \cup fresh
    <3>1. /\ ~(Cardinality(here) > MaxTargetsPerScope)
          /\ ~(Cardinality(all) > MaxTargetsTotal)
      BY <1>2, <2>4 DEF Rejected, EnableRejected
    <3>2. IsFiniteSet(fresh)
      BY NamedFinite, FS_Subset
    <3>3. IsFiniteSet(active) /\ IsFiniteSet(active \cap InScope(req.scope))
      BY <1>1, FS_Subset DEF Capped
    <3>4. IsFiniteSet(all) /\ IsFiniteSet(here)
      BY <3>2, <3>3, FS_Union
    <3>5. IsFiniteSet(later) /\ Cardinality(later) <= Cardinality(all)
      BY <2>2, <3>4, FS_Subset
    <3>6. Cardinality(later) \in Nat /\ Cardinality(all) \in Nat /\ Cardinality(here) \in Nat
      BY <3>4, <3>5, FS_CardinalityType
    <3>7. ASSUME NEW s \in Scope
          PROVE  Cardinality(later \cap InScope(s)) <= MaxTargetsPerScope
      <4> DEFINE kept == active \cap InScope(s)
                 part == later \cap InScope(s)
      <4>1. CASE s = req.scope
        <5>1. part \subseteq here
          BY <2>2, <4>1
        <5>2. IsFiniteSet(part) /\ Cardinality(part) <= Cardinality(here)
          BY <3>4, <5>1, FS_Subset
        <5>3. Cardinality(part) \in Nat
          BY <5>2, FS_CardinalityType
        <5> HIDE DEF part, here, all, later
        <5>4. Cardinality(part) <= MaxTargetsPerScope
          BY <3>1, <3>6, <5>2, <5>3, LimitAssumption
        <5> QED
          BY <5>4 DEF part
      <4>2. CASE s # req.scope
        <5>1. part \subseteq kept
          BY <2>2, <4>2 DEF Named, InScope
        <5>2. Cardinality(kept) <= MaxTargetsPerScope
          BY <1>1 DEF Capped
        <5>3. IsFiniteSet(kept)
          BY <3>3, FS_Subset
        <5>4. IsFiniteSet(part) /\ Cardinality(part) <= Cardinality(kept)
          BY <5>1, <5>3, FS_Subset
        <5>5. Cardinality(part) \in Nat /\ Cardinality(kept) \in Nat
          BY <5>3, <5>4, FS_CardinalityType
        <5> HIDE DEF part, kept
        <5>6. Cardinality(part) <= MaxTargetsPerScope
          BY <5>2, <5>4, <5>5, LimitAssumption
        <5> QED
          BY <5>6 DEF part
      <4> QED
        BY <4>1, <4>2
    <3>8. Cardinality(later) <= MaxTargetsTotal
      <4> HIDE DEF later, all, here
      <4> QED
        BY <3>1, <3>5, <3>6, LimitAssumption
    <3> QED
      BY <3>5, <3>7, <3>8 DEF Capped
  <2> QED
    BY <2>3, <2>4
<1>3. CASE req.op \in {"disable", "set_rate", "clear_rate", "restore", "acknowledge"}
  <2>1. ASSUME NEW k \in Key
        PROVE  new.activations[k] = clean.activations[k] \/ new.activations[k] = NoLease
    <3>1. CASE req.op = "disable"
      BY <3>1, DisableRows DEF Apply
    <3>2. CASE req.op = "set_rate"
      BY <3>2, SetRateRows DEF Apply
    <3>3. CASE req.op = "clear_rate"
      BY <3>3, ClearRateRows DEF Apply
    <3>4. CASE req.op = "restore"
      BY <3>4, RestoreRows DEF Apply
    <3>5. CASE req.op = "acknowledge"
      BY <3>5, AcknowledgeRows DEF Apply
    <3> QED
      BY <1>3, <3>1, <3>2, <3>3, <3>4, <3>5
  <2>2. Live(new.activations) \subseteq active
    BY <2>1 DEF Live
  <2> QED
    BY <1>1, <2>2, CappedSubset
<1> QED
  BY <1>1, <1>2, <1>3 DEF Operation

(* Pruning makes no report last longer.                                     *)
LEMMA PruneReports ==
  ASSUME NEW doc \in Document, NEW now \in Nat, ReportsBounded(doc, now)
  PROVE  ReportsBounded(Prune(doc, now), now)
<1>1. NoReport.expires = 0 /\ ReportSeconds \in Nat
  BY LimitAssumption DEF NoReport
<1> QED
  BY <1>1, PruneRows DEF ReportsBounded

(* Nor does a mutation, save by a report made now.                          *)
LEMMA ApplyReports ==
  ASSUME NEW doc \in Document, NEW now \in Nat, ReportsBounded(doc, now), NEW req \in Request
  PROVE  ReportsBounded(Apply(doc, req, now).doc, now)
<1> SUFFICES ASSUME NEW s \in Scope
             PROVE  Apply(doc, req, now).doc.reports[s].expires <= now + ReportSeconds
  BY DEF ReportsBounded
<1>1. Prune(doc, now).reports[s].expires <= now + ReportSeconds
  BY PruneReports DEF ReportsBounded
<1>2. NoReport.expires = 0 /\ now + ReportSeconds \in Nat
  BY LimitAssumption DEF NoReport
<1> QED
  BY <1>1, <1>2, ReportRows

(* A report bounded now is bounded later.                                   *)
LEMMA ReportsLater ==
  ASSUME NEW doc \in Document, NEW t \in Nat, NEW u \in Nat, t <= u, ReportsBounded(doc, t)
  PROVE  ReportsBounded(doc, u)
BY RowTypes, LimitAssumption DEF ReportsBounded

(* What a commit is for does not change while it waits.                     *)
LEMMA PurposeLater ==
  ASSUME NEW doc \in Document, NEW t \in Nat, NEW u \in Nat, t <= u, NEW req, NEW locals,
         locals.candidate \in Document, Purpose(doc, req, locals, t)
  PROVE  Purpose(doc, req, locals, u)
<1> DEFINE new == locals.candidate
<1>1. \A k \in Key : /\ doc.activations[k] \in Nat /\ doc.rates[k] \in Nat
                     /\ new.activations[k] \in Nat /\ new.rates[k] \in Nat
  BY RowTypes
<1>2. \A s \in Scope : doc.reports[s].expires \in Nat
  BY RowTypes
<1>3. \A a, b \in Nat : SameLease(a, b, t) => SameLease(a, b, u)
  BY DEF SameLease
<1>4. Named(req) \subseteq Key
  BY NamedIs
<1>5. \A k \in Key : ~Touches(req, k) =>
        /\ SameLease(new.activations[k], doc.activations[k], u)
        /\ SameLease(new.rates[k], doc.rates[k], u)
  BY <1>1, <1>3 DEF Purpose
<1>6. \A k \in Named(req) :
        /\ req.op \in {"enable", "renew"} =>
             \/ SameLease(new.rates[k], doc.rates[k], u)
             \/ new.activations[k] < doc.rates[k]
        /\ req.op = "set_rate" => new.rates[k] # NoLease
  BY <1>1, <1>3, <1>4 DEF Purpose
<1>7. \A s \in Scope :
        \/ new.reports[s].expires >= doc.reports[s].expires
        \/ doc.reports[s].expires <= u
        \/ req.op = "acknowledge" /\ req.scope = s /\ req.id = IdOf(doc.reports[s])
  BY <1>2 DEF Purpose
<1> QED
  BY <1>5, <1>6, <1>7 DEF Purpose
=============================================================================
