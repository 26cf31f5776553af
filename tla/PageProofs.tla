----------------------------- MODULE PageProofs ------------------------------
(***************************************************************************)
(* Theorems about Page for every number of villages and requests: the      *)
(* network is a bag without a bound.                                       *)
(***************************************************************************)
EXTENDS Page, TLAPS

-----------------------------------------------------------------------------
(* Bags of requests.                                                       *)

LEMMA Added ==
  ASSUME NEW B, IsABag(B), NEW x
  PROVE  /\ IsABag(BagAdd(B, x))
         /\ BagToSet(BagAdd(B, x)) = BagToSet(B) \cup {x}
         /\ \A y : Copies(y, BagAdd(B, x)) >= Copies(y, B)
BY DEF IsABag, BagToSet, BagAdd, Copies

LEMMA Removed ==
  ASSUME NEW B, IsABag(B), NEW x
  PROVE  /\ IsABag(BagRemove(B, x))
         /\ BagToSet(BagRemove(B, x)) \subseteq BagToSet(B)
         /\ BagToSet(B) \subseteq BagToSet(BagRemove(B, x)) \cup {x}
         /\ \A y : y # x => Copies(y, BagRemove(B, x)) = Copies(y, B)
BY DEF IsABag, BagToSet, BagRemove, Copies

LEMMA Joined ==
  ASSUME NEW B, IsABag(B), NEW S
  PROVE  /\ IsABag(B (+) SetToBag(S))
         /\ BagToSet(B (+) SetToBag(S)) = BagToSet(B) \cup S
         /\ \A y : Copies(y, B (+) SetToBag(S)) >= Copies(y, B)
BY DEF IsABag, BagToSet, SetToBag, (+), Copies

-----------------------------------------------------------------------------
(***************************************************************************)
(* A request is answered in kind, and a poll, a claim or a cancel sent for *)
(* a village with nothing but that village's content.  With the types this *)
(* is inductive.                                                           *)
(***************************************************************************)
Fit(m) ==
  /\ m \in Request
  /\ m.kind = "villages" => m.body \subseteq Names
  /\ m.kind # "villages" => m.body \subseteq Content
  /\ m.kind \in {"send", "forget"} => m.tag \in Tags
  /\ m.kind \in {"poll", "pending"} /\ m.on # None
       => m.tag = m.on /\ \A c \in m.body : c.tag = m.on

AllFit == \A m \in BagToSet(net) : Fit(m)
Inv == TypeOK /\ AllFit

LEMMA AskedFits ==
  ASSUME NEW kind \in Kinds, NEW t \in Names \cup {None}, NEW on \in Tags \cup {None},
         kind \in {"send", "forget"} => t \in Tags, on # None => t = on
  PROVE  Fit(Asked(kind, t, on))
BY DEF Asked, Fit, Request

LEMMA AskFits ==
  ASSUME TypeOK, NEW kind \in Kinds, NEW t \in Names \cup {None},
         kind \in {"send", "forget"} => t \in Tags, kind \in {"poll", "pending"} => t = tag
  PROVE  Fit(Ask(kind, t))
BY AskedFits DEF Ask, TypeOK

LEMMA ListFits == Fit(ListVillages)
BY AskedFits DEF ListVillages, Kinds

\* A village's content comes under its own tag or its store's name for it.
LEMMA ContentsType ==
  ASSUME TypeOK, NEW n \in Names
  PROVE  /\ Contents(n) \subseteq Content
         /\ n \in Tags => \A c \in Contents(n) : c.tag = n
BY PageAssumption DEF Contents, Kept, Content, Capture, TypeOK

LEMMA ReportedType ==
  ASSUME TypeOK, NEW n \in Names \cup {None}
  PROVE  /\ Resolved(n) \subseteq Names
         /\ Reported(n) \subseteq Content
         /\ n \in Tags => \A c \in Reported(n) : c.tag = n
<1>1. Resolved(n) \subseteq Names
  BY DEF Resolved, Names, TypeOK, Capture
<1>2. n # None => Resolved(n) = {n}
  BY DEF Resolved
<1>3. None \notin Names /\ Tags \subseteq Names
  BY PageAssumption DEF Names
<1>4. Reported(n) \subseteq Content
  BY <1>1, ContentsType DEF Reported
<1>5. ASSUME n \in Tags, NEW c \in Reported(n) PROVE c.tag = n
  BY <1>2, <1>3, <1>5, ContentsType DEF Reported
<1>6. QED BY <1>1, <1>4, <1>5

\* One request in flight becomes another.
LEMMA Exchanged ==
  ASSUME Inv, NEW m \in BagToSet(net), NEW n, Fit(n),
         net' = BagAdd(BagRemove(net, m), n)
  PROVE  IsABag(net') /\ AllFit'
<1>1. IsABag(net) /\ \A x \in BagToSet(net) : Fit(x)
  BY DEF Inv, TypeOK, AllFit
<1>2. /\ IsABag(BagRemove(net, m))
      /\ BagToSet(BagRemove(net, m)) \subseteq BagToSet(net)
  BY <1>1, Removed
<1>3. IsABag(net') /\ BagToSet(net') \subseteq BagToSet(net) \cup {n}
  BY <1>2, Added
<1>4. QED BY <1>1, <1>3 DEF AllFit

\* One more request goes out.
LEMMA Sent ==
  ASSUME Inv, NEW n, Fit(n), net' = BagAdd(net, n)
  PROVE  IsABag(net') /\ AllFit'
<1>1. IsABag(net) /\ \A x \in BagToSet(net) : Fit(x)
  BY DEF Inv, TypeOK, AllFit
<1>2. IsABag(net') /\ BagToSet(net') = BagToSet(net) \cup {n}
  BY <1>1, Added
<1>3. QED BY <1>1, <1>2 DEF AllFit

LEMMA AnsweredFits ==
  ASSUME NEW m, Fit(m), NEW body, NEW ok \in BOOLEAN, NEW b \in BOOLEAN,
         m.kind = "villages" => body \subseteq Names,
         m.kind # "villages" => body \subseteq Content,
         m.kind \in {"poll", "pending"} /\ m.on # None => \A c \in body : c.tag = m.on
  PROVE  Fit([m EXCEPT !.pc = "answered", !.ok = ok, !.body = body, !.contradicted = b])
BY DEF Fit, Request

\* An answer that says what its request asked for.
LEMMA Answered ==
  ASSUME Inv, NEW m \in BagToSet(net), NEW body, Answer(m, body),
         m.kind = "villages" => body \subseteq Names,
         m.kind # "villages" => body \subseteq Content,
         m.kind \in {"poll", "pending"} /\ m.on # None => \A c \in body : c.tag = m.on
  PROVE  IsABag(net') /\ AllFit'
<1>1. Fit(m) /\ m \in Request
  BY DEF Inv, AllFit, Fit
<1>2. Fit([m EXCEPT !.pc = "answered", !.ok = m.ok, !.body = body, !.contradicted = m.contradicted])
  BY <1>1, AnsweredFits DEF Request
<1>3. [m EXCEPT !.pc = "answered", !.ok = m.ok, !.body = body, !.contradicted = m.contradicted]
        = [m EXCEPT !.pc = "answered", !.body = body]
  BY <1>1 DEF Request
<1>4. QED BY <1>2, <1>3, Exchanged DEF Answer

LEMMA InitInv == Init => Inv
<1> SUFFICES ASSUME Init PROVE Inv
  OBVIOUS
<1>1. server \subseteq Capture /\ \A c, d \in server : c.tag = d.tag => c = d
  BY PageAssumption DEF Init, Capture, Content
<1>2. declared \in [Names -> Nat]
  <2>1. ASSUME NEW n \in Names, \E c \in Stored : c.tag = n
        PROVE  (CHOOSE c \in Stored : c.tag = n) \in Stored
    BY <2>1
  <2>2. QED BY <2>1, PageAssumption DEF Init, Content
<1>3. clock \in Nat
  BY <1>1 DEF Init, Capture
<1>4. tag \in Tags \cup {None}
  BY PageAssumption DEF Init
<1>5. Ask("load", tag) = Asked("load", tag, None)
  BY DEF Ask
<1>6. Fit(Ask("load", tag)) /\ Fit(ListVillages)
  BY <1>4, <1>5, AskedFits, ListFits DEF Names, Kinds
<1>7. IsABag(net) /\ BagToSet(net) = {Ask("load", tag), ListVillages}
  BY DEF Init, IsABag, SetToBag, BagToSet
<1>8. AllFit /\ BagToSet(net) \subseteq Request
  BY <1>6, <1>7 DEF AllFit, Fit
<1>9. report = None /\ mismatches = None /\ villages = {} /\ acts \in 0..MaxActs
  BY PageAssumption DEF Init
<1>10. untold \subseteq Tags
  <2>1. untold = {tag} \ ({c.tag : c \in server} \cup {None})
    BY DEF Init
  <2>2. QED BY <1>4, <2>1
<1>11. late \in BOOLEAN
  BY DEF Init
<1>12. QED BY <1>1, <1>2, <1>3, <1>4, <1>7, <1>8, <1>9, <1>10, <1>11 DEF Inv, TypeOK

\* A capture replaces the village's last one.
LEMMA CapturedType ==
  ASSUME TypeOK, NEW t \in Tags, Captured(t)
  PROVE  /\ server' \subseteq Capture
         /\ \A c, d \in server' : c.tag = d.tag => c = d
         /\ declared' \in [Names -> Nat]
         /\ clock' \in Nat
<1> DEFINE new == [tag |-> t, cap |-> clock']
<1>1. clock' \in Nat
  BY DEF TypeOK, Captured
<1>2. new \in Capture /\ new.tag = t
  BY <1>1 DEF Capture
<1>3. t \in Names /\ declared' \in [Names -> Nat]
  BY DEF TypeOK, Captured, Names
<1>4. server' = {c \in server : c.tag # t} \cup {new}
  BY DEF Captured
<1> HIDE DEF new
<1>5. QED BY <1>1, <1>2, <1>3, <1>4 DEF TypeOK

StoredOK ==
  /\ server \subseteq Capture
  /\ declared \in [Names -> Nat]
  /\ \A c, d \in server : c.tag = d.tag => c = d
  /\ clock \in Nat

LEMMA ServeInv ==
  ASSUME Inv, NEW kind \in Kinds, Serve(kind) PROVE Inv'
<1> USE DEF Inv
<1>1. PICK m \in BagToSet(net) : /\ m.kind = kind
                                 /\ ServeRead(m) \/ ServeSend(m) \/ ServePending(m) \/ ServeForget(m)
  BY DEF Serve
<1>2. Fit(m) /\ m \in Request /\ m.tag \in Names \cup {None} /\ Tags \subseteq Names
  BY DEF AllFit, Fit, Request, Names
<1>3. StoredOK
  BY DEF TypeOK, StoredOK
<1>4. CASE ServeRead(m)
  <2> DEFINE body == IF m.kind = "villages" THEN {Label[c.tag] : c \in server} ELSE Reported(m.tag)
  <2>1. Answer(m, body) /\ UNCHANGED stored
    BY <1>4 DEF ServeRead
  <2>2. m.kind = "villages" => body \subseteq Names
    BY DEF Names, TypeOK, Capture
  <2>3. m.kind # "villages" => body \subseteq Content
    BY <1>2, ReportedType
  <2>4. m.kind \in {"poll", "pending"} /\ m.on # None => \A c \in body : c.tag = m.on
    BY <1>2, ReportedType DEF Fit, Request
  <2> HIDE DEF body
  <2>5. IsABag(net') /\ AllFit'
    BY <2>1, <2>2, <2>3, <2>4, Answered
  <2>6. QED BY <1>3, <2>1, <2>5 DEF Serve, page, stored, TypeOK, AllFit, Fit
<1>5. CASE ServeSend(m)
  <2>1. PICK b \in BOOLEAN :
          net' = BagAdd(BagRemove(net, m),
            [m EXCEPT !.pc = "answered", !.body = {[tag |-> m.tag, cap |-> clock', rev |-> 0]},
                      !.contradicted = b])
    BY <1>5 DEF ServeSend
  <2>2. m.kind = "send" /\ m.tag \in Tags /\ Captured(m.tag)
    BY <1>2, <1>5 DEF ServeSend, Fit
  <2>3. StoredOK'
    BY <2>2, CapturedType DEF StoredOK
  <2> DEFINE body == {[tag |-> m.tag, cap |-> clock', rev |-> 0]}
  <2>4. body \subseteq Content
    BY <2>2, <2>3 DEF StoredOK, Content
  <2> HIDE DEF body
  <2>5. Fit([m EXCEPT !.pc = "answered", !.ok = m.ok, !.body = body, !.contradicted = b])
    BY <1>2, <2>2, <2>4, AnsweredFits DEF Request
  <2>6. [m EXCEPT !.pc = "answered", !.ok = m.ok, !.body = body, !.contradicted = b]
          = [m EXCEPT !.pc = "answered", !.body = body, !.contradicted = b]
    BY <1>2 DEF Request
  <2>7. IsABag(net') /\ AllFit'
    BY <2>1, <2>5, <2>6, Exchanged DEF body
  <2>8. QED BY <2>3, <2>7 DEF Serve, page, StoredOK, TypeOK, AllFit, Fit
<1>6. CASE ServePending(m)
  <2> DEFINE named == {n \in Resolved(m.tag) : Kept(n) # {}}
             body == UNION {{[c EXCEPT !.rev = @ + 1] : c \in Contents(n)} : n \in named}
  <2>1. /\ declared' = [n \in Names |-> IF n \in named THEN declared[n] + 1 ELSE declared[n]]
        /\ Answer(m, body)
        /\ UNCHANGED <<server, clock>>
        /\ m.kind = "pending"
    BY <1>6 DEF ServePending
  <2>2. StoredOK'
    BY <1>3, <2>1 DEF StoredOK
  <2>3. \A n \in named : Contents(n) \subseteq Content
    BY <1>2, ReportedType, ContentsType
  <2>4. body \subseteq Content
    BY <2>3 DEF Content
  <2>5. m.on # None => \A c \in body : c.tag = m.on
    <3> SUFFICES ASSUME m.on # None, NEW n \in named, NEW c \in Contents(n) PROVE c.tag = m.on
      BY <2>3 DEF Content
    <3>1. m.tag = m.on /\ m.on \in Tags
      BY <1>2, <2>1 DEF Fit, Request
    <3>2. n = m.tag
      BY <3>1 DEF Resolved
    <3>3. QED BY <1>2, <3>1, <3>2, ContentsType
  <2> HIDE DEF body
  <2>6. IsABag(net') /\ AllFit'
    BY <2>1, <2>4, <2>5, Answered
  <2>7. QED BY <2>2, <2>6 DEF Serve, page, StoredOK, TypeOK, AllFit, Fit
<1>7. CASE ServeForget(m)
  <2>1. Answer(m, {})
    BY <1>7 DEF ServeForget
  <2>2. StoredOK'
    BY <1>3, <1>7 DEF ServeForget, StoredOK
  <2>3. IsABag(net') /\ AllFit'
    BY <2>1, Answered
  <2>4. QED BY <2>2, <2>3 DEF Serve, page, StoredOK, TypeOK, AllFit, Fit
<1>8. QED BY <1>1, <1>4, <1>5, <1>6, <1>7

\* What is left of the requests once one is answered.
FitBag(rest) == IsABag(rest) /\ \A m \in BagToSet(rest) : Fit(m)

LEMMA RestFits ==
  ASSUME Inv, NEW m PROVE FitBag(BagRemove(net, m))
<1>1. IsABag(net) /\ \A x \in BagToSet(net) : Fit(x)
  BY DEF Inv, TypeOK, AllFit
<1>2. QED BY <1>1, Removed DEF FitBag

LEMMA MoreFits ==
  ASSUME NEW rest, FitBag(rest), NEW n, Fit(n) PROVE FitBag(BagAdd(rest, n))
BY Added DEF FitBag

LEMMA Rendered ==
  ASSUME NEW rest, FitBag(rest), NEW t \in Tags \cup {None}, NEW r \in Content \cup {None},
         Render(t, r, rest)
  PROVE  FitBag(net') /\ tag' \in Tags \cup {None} /\ report' \in Content \cup {None}
BY ListFits, MoreFits DEF Render

LEMMA ReportApplied ==
  ASSUME TypeOK, NEW m, Fit(m), m.kind # "villages", NEW rest, FitBag(rest),
         ApplyReport(m, rest)
  PROVE  /\ FitBag(net') /\ tag' \in Tags \cup {None} /\ report' \in Content \cup {None}
         /\ late' \in BOOLEAN
<1>1. CASE m.body = {}
  <2>1. tag \in Tags \cup {None} /\ report \in Content \cup {None} /\ late \in BOOLEAN
    BY DEF TypeOK
  <2>2. QED BY <1>1, <2>1, Rendered DEF ApplyReport
<1>2. CASE m.body # {}
  <2>1. PICK c \in m.body : Render(c.tag, c, rest) /\ late' = (Kept(c.tag) = {})
    BY <1>2 DEF ApplyReport
  <2>2. c \in Content /\ c.tag \in Tags
    BY DEF Fit, Content
  <2>3. QED BY <2>1, <2>2, Rendered
<1>3. QED BY <1>1, <1>2

LEMMA FitNet == FitBag(net') => AllFit' /\ BagToSet(net') \subseteq Request /\ IsABag(net')
BY DEF FitBag, AllFit, Fit

LEMMA DeliverInv ==
  ASSUME Inv, NEW kind \in Kinds, Deliver(kind) PROVE Inv'
<1>1. PICK m \in BagToSet(net) :
        \/ AnswerReport(m) \/ AnswerSend(m) \/ AnswerForget(m)
        \/ AnswerRefetch(m) \/ AnswerVillages(m)
  BY DEF Deliver
<1> DEFINE rest == BagRemove(net, m)
<1>2. Fit(m) /\ FitBag(rest) /\ TypeOK
  BY RestFits DEF Inv, AllFit
<1>3. /\ tag \in Tags \cup {None} /\ report \in Content \cup {None} /\ None \in Tags \cup {None}
      /\ mismatches \in Tags \cup {None} /\ villages \subseteq Names
      /\ late \in BOOLEAN /\ untold \subseteq Tags
  BY <1>2 DEF TypeOK
<1>4. /\ server' \subseteq Capture
      /\ declared' \in [Names -> Nat]
      /\ \A c, d \in server' : c.tag = d.tag => c = d
      /\ clock' \in Nat
      /\ acts' \in 0..MaxActs
  BY <1>2 DEF Deliver, stored, TypeOK
<1> HIDE DEF rest
<1> SUFFICES /\ FitBag(net')
             /\ tag' \in Tags \cup {None} /\ report' \in Content \cup {None}
             /\ mismatches' \in Tags \cup {None} /\ villages' \subseteq Names
             /\ late' \in BOOLEAN /\ untold' \subseteq Tags
  BY <1>4, FitNet DEF Inv, TypeOK
<1>5. CASE AnswerReport(m)
  BY <1>2, <1>3, <1>5, ReportApplied DEF AnswerReport, rest
<1>6. CASE AnswerSend(m)
  <2>1. m.tag \in Tags
    BY <1>2, <1>6 DEF AnswerSend, Fit
  <2>2. QED BY <1>2, <1>3, <1>6, <2>1, ReportApplied DEF AnswerSend, rest
<1>7. CASE AnswerForget(m)
  <2> DEFINE more == rest (+) SetToBag({ListVillages, Asked("refetch", None, None)})
  <2>1. FitBag(more)
    <3>1. Fit(Asked("refetch", None, None))
      BY AskedFits DEF Kinds
    <3>2. QED BY <1>2, <3>1, Joined, ListFits DEF FitBag
  <2>2. \/ Render(None, report, more)
        \/ Render(tag, report, rest)
    BY <1>7 DEF AnswerForget, rest
  <2>3. UNCHANGED <<mismatches, villages, late>> /\ untold' \subseteq Tags
    BY <1>2, <1>3, <1>7 DEF AnswerForget, Fit
  <2> HIDE DEF more
  <2>4. FitBag(net') /\ tag' \in Tags \cup {None} /\ report' \in Content \cup {None}
    BY <1>2, <1>3, <2>1, <2>2, Rendered
  <2>5. QED BY <1>3, <2>3, <2>4
<1>8. CASE AnswerRefetch(m)
  <2>1. \/ Render(tag, None, rest) /\ UNCHANGED late
        \/ ApplyReport(m, rest)
    BY <1>8 DEF AnswerRefetch, rest
  <2>2. m.kind = "refetch" /\ UNCHANGED <<mismatches, villages, untold>>
    BY <1>8 DEF AnswerRefetch
  <2>3. /\ FitBag(net') /\ tag' \in Tags \cup {None} /\ report' \in Content \cup {None}
        /\ late' \in BOOLEAN
    BY <1>2, <1>3, <2>1, <2>2, Rendered, ReportApplied
  <2>4. QED BY <1>3, <2>2, <2>3
<1>9. CASE AnswerVillages(m)
  BY <1>2, <1>3, <1>9 DEF AnswerVillages, Fit, rest
<1>10. QED BY <1>1, <1>5, <1>6, <1>7, <1>8, <1>9

\* Requests going out, and what happens to those in flight.
LEMMA PlayInv ==
  ASSUME Inv, \/ Poll \/ ForgetVillage \/ BuildNow \/ Fail
              \/ \E n \in Names : SelectVillage(n)
              \/ \E t \in Tags : Send(t) \/ Elsewhere(t)
  PROVE  Inv'
<1> USE DEF Inv
<1>1. TypeOK /\ AllFit /\ tag \in Names \cup {None} /\ Tags \subseteq Names
  BY DEF TypeOK, Names
<1>2. Act => acts' \in 0..MaxActs
  BY <1>1, PageAssumption DEF Act, TypeOK
<1>3. ASSUME NEW n, Fit(n), net' = BagAdd(net, n),
             UNCHANGED <<server, declared, clock, tag, report, villages, late, untold>>,
             mismatches' \in {mismatches, None}, acts' \in 0..MaxActs
      PROVE  Inv'
  <2>1. IsABag(net') /\ AllFit'
    BY <1>3, Sent
  <2>2. QED BY <1>1, <1>3, <2>1 DEF TypeOK, AllFit, Fit
<1>4. CASE Poll
  <2>1. Fit(Ask("poll", tag))
    BY <1>1, AskFits DEF Kinds
  <2>2. acts' \in 0..MaxActs
    BY <1>1, <1>2, <1>4 DEF Poll, TypeOK
  <2>3. QED BY <1>3, <1>4, <2>1, <2>2 DEF Poll, stored, page
<1>5. CASE ForgetVillage
  <2>1. Fit(Ask("forget", tag))
    BY <1>1, <1>5, AskFits DEF ForgetVillage, Kinds, TypeOK
  <2>2. QED BY <1>2, <1>3, <1>5, <2>1 DEF ForgetVillage, stored, page
<1>6. CASE BuildNow
  <2>1. Fit(Ask("pending", tag))
    BY <1>1, AskFits DEF Kinds
  <2>2. QED BY <1>2, <1>3, <1>6, <2>1 DEF BuildNow, stored, page
<1>7. ASSUME NEW n \in Names, SelectVillage(n) PROVE Inv'
  <2>1. Fit(Ask("select", n))
    BY <1>1, AskFits DEF Kinds
  <2>2. QED BY <1>2, <1>3, <1>7, <2>1 DEF SelectVillage, stored
<1>8. ASSUME NEW t \in Tags, Send(t) PROVE Inv'
  <2>1. Fit(Ask("send", t))
    BY <1>1, AskFits DEF Kinds
  <2>2. QED BY <1>2, <1>3, <1>8, <2>1 DEF Send, stored, page
<1>9. ASSUME NEW t \in Tags, Elsewhere(t) PROVE Inv'
  BY <1>1, <1>2, <1>9, CapturedType DEF Elsewhere, page, TypeOK, AllFit
<1>10. CASE Fail
  <2>1. PICK m \in BagToSet(net) :
          net' = BagAdd(BagRemove(net, m),
            [m EXCEPT !.pc = "answered", !.ok = FALSE, !.body = {}, !.contradicted = FALSE])
    BY <1>10 DEF Fail
  <2>2. Fit([m EXCEPT !.pc = "answered", !.ok = FALSE, !.body = {}, !.contradicted = FALSE])
    BY AnsweredFits DEF AllFit
  <2>3. IsABag(net') /\ AllFit'
    BY <2>1, <2>2, Exchanged
  <2>4. QED BY <1>1, <1>2, <1>10, <2>3 DEF Fail, stored, page, TypeOK, AllFit, Fit
<1>11. QED BY <1>4, <1>5, <1>6, <1>7, <1>8, <1>9, <1>10

LEMMA NextInv == Inv /\ [Next]_vars => Inv'
<1> SUFFICES ASSUME Inv, [Next]_vars PROVE Inv'
  OBVIOUS
<1>1. CASE UNCHANGED vars
  BY <1>1 DEF vars, stored, page, Inv, TypeOK, AllFit
<1>2. CASE Next
  BY <1>2, ServeInv, DeliverInv, PlayInv DEF Next
<1>3. QED BY <1>1, <1>2

\* The page and its requests stay of their types, and no village is stored
\* twice, for any number of requests in flight.
THEOREM TypeCorrect == Spec => []TypeOK
<1>1. Inv => TypeOK
  BY DEF Inv
<1>2. QED BY <1>1, InitInv, NextInv, PTL DEF Spec

-----------------------------------------------------------------------------
(***************************************************************************)
(* What is shown is what is named.  Whatever leaves the page on no village *)
(* with a report sends a refetch, and only a refetch's answer takes one    *)
(* off the network.                                                        *)
(***************************************************************************)
Refetching == \E m \in BagToSet(net) : m.kind = "refetch"

LEMMA KindKept ==
  ASSUME Inv, Refetching, NEW m \in BagToSet(net), NEW n, n.kind = m.kind,
         net' = BagAdd(BagRemove(net, m), n)
  PROVE  Refetching'
<1>1. PICK x \in BagToSet(net) : x.kind = "refetch"
  BY DEF Refetching
<1>2. IsABag(net)
  BY DEF Inv, TypeOK
<1>3. /\ IsABag(BagRemove(net, m))
      /\ BagToSet(net) \subseteq BagToSet(BagRemove(net, m)) \cup {m}
  BY <1>2, Removed
<1>4. BagToSet(net') = BagToSet(BagRemove(net, m)) \cup {n}
  BY <1>3, Added
<1>5. QED BY <1>1, <1>3, <1>4 DEF Refetching

\* The answer to anything but a refetch.
LEMMA OthersKept ==
  ASSUME Inv, Refetching, NEW m \in BagToSet(net), m.kind # "refetch",
         NEW t, NEW r, Render(t, r, BagRemove(net, m)) \/ net' = BagRemove(net, m)
  PROVE  Refetching'
<1>1. PICK x \in BagToSet(net) : x.kind = "refetch"
  BY DEF Refetching
<1>2. IsABag(net)
  BY DEF Inv, TypeOK
<1>3. /\ IsABag(BagRemove(net, m))
      /\ x \in BagToSet(BagRemove(net, m))
  BY <1>1, <1>2, Removed
<1>4. x \in BagToSet(net')
  BY <1>3, Added DEF Render
<1>5. QED BY <1>1, <1>4 DEF Refetching

LEMMA ReportShown ==
  ASSUME Inv, ShownIsNamed, NEW m \in BagToSet(net), ApplyReport(m, BagRemove(net, m)),
         m.kind # "refetch" \/ m.body # {}
  PROVE  ShownIsNamed'
<1>1. CASE m.body = {}
  <2>1. Render(tag, report, BagRemove(net, m)) /\ m.kind # "refetch"
    BY <1>1 DEF ApplyReport
  <2>2. Refetching => Refetching'
    BY <2>1, OthersKept
  <2>3. QED BY <2>1, <2>2 DEF ShownIsNamed, Refetching, Render
<1>2. CASE m.body # {}
  BY <1>2 DEF ApplyReport, Render, ShownIsNamed
<1>3. QED BY <1>1, <1>2

LEMMA DeliverShown ==
  ASSUME Inv, ShownIsNamed, NEW kind \in Kinds, Deliver(kind) PROVE ShownIsNamed'
<1>1. PICK m \in BagToSet(net) :
        \/ AnswerReport(m) \/ AnswerSend(m) \/ AnswerForget(m)
        \/ AnswerRefetch(m) \/ AnswerVillages(m)
  BY DEF Deliver
<1>2. CASE AnswerReport(m) \/ AnswerSend(m)
  BY <1>2, ReportShown DEF AnswerReport, AnswerSend
<1>3. CASE AnswerForget(m)
  <2> DEFINE rest == BagRemove(net, m)
             again == {ListVillages, Asked("refetch", None, None)}
  <2>1. CASE Render(None, report, rest (+) SetToBag(again))
    <3>1. IsABag(rest)
      BY Removed DEF Inv, TypeOK
    <3>2. /\ IsABag(rest (+) SetToBag(again))
          /\ again \subseteq BagToSet(rest (+) SetToBag(again))
      BY <3>1, Joined
    <3> HIDE DEF rest
    <3>3. Asked("refetch", None, None) \in BagToSet(net')
      BY <2>1, <3>2, Added DEF Render
    <3>4. Refetching'
      BY <3>3 DEF Refetching, Asked
    <3>5. QED BY <2>1, <3>4 DEF Render, ShownIsNamed, Refetching
  <2>2. CASE Render(tag, report, rest)
    <3>1. Refetching => Refetching'
      BY <1>3, <2>2, OthersKept DEF AnswerForget
    <3>2. QED BY <2>2, <3>1 DEF Render, ShownIsNamed, Refetching
  <2>3. QED BY <1>3, <2>1, <2>2 DEF AnswerForget
<1>4. CASE AnswerRefetch(m)
  <2>1. CASE m.body = {}
    BY <1>4, <2>1 DEF AnswerRefetch, Render, ShownIsNamed
  <2>2. CASE m.body # {}
    BY <1>4, <2>2, ReportShown DEF AnswerRefetch
  <2>3. QED BY <2>1, <2>2
<1>5. CASE AnswerVillages(m)
  <2>1. Refetching => Refetching'
    BY <1>5, OthersKept DEF AnswerVillages
  <2>2. QED BY <1>5, <2>1 DEF AnswerVillages, ShownIsNamed, Refetching
<1>6. QED BY <1>1, <1>2, <1>3, <1>4, <1>5

\* Nothing but an answer takes a request away, or changes what is shown.
LEMMA OtherSteps ==
  ASSUME Inv, [Next]_vars, ~ \E kind \in Kinds : Deliver(kind)
  PROVE  /\ UNCHANGED <<tag, report>>
         /\ Refetching => Refetching'
<1>1. ASSUME NEW n, net' = BagAdd(net, n) PROVE Refetching => Refetching'
  BY <1>1, Added DEF Inv, TypeOK, Refetching
<1>2. CASE \/ Poll \/ ForgetVillage \/ BuildNow
           \/ \E n \in Names : SelectVillage(n)
           \/ \E t \in Tags : Send(t) \/ Elsewhere(t)
           \/ UNCHANGED vars
  <2>1. UNCHANGED <<tag, report>> /\ (net' = net \/ \E n : net' = BagAdd(net, n))
    BY <1>2 DEF Poll, ForgetVillage, BuildNow, SelectVillage, Send, Elsewhere, vars, page
  <2>2. QED BY <1>1, <2>1 DEF Refetching
<1>3. ASSUME NEW m \in BagToSet(net), NEW n, n.kind = m.kind,
             net' = BagAdd(BagRemove(net, m), n)
      PROVE  Refetching => Refetching'
  BY <1>3, KindKept
<1>4. \A m \in BagToSet(net) : m \in Request
  BY DEF Inv, AllFit, Fit
<1>5. CASE Fail
  <2>1. PICK m \in BagToSet(net) :
          net' = BagAdd(BagRemove(net, m),
            [m EXCEPT !.pc = "answered", !.ok = FALSE, !.body = {}, !.contradicted = FALSE])
    BY <1>5 DEF Fail
  <2>2. [m EXCEPT !.pc = "answered", !.ok = FALSE, !.body = {}, !.contradicted = FALSE].kind = m.kind
    BY <1>4 DEF Request
  <2>3. QED BY <1>3, <1>5, <2>1, <2>2 DEF Fail, page
<1>6. ASSUME NEW kind \in Kinds, Serve(kind)
      PROVE  UNCHANGED <<tag, report>> /\ (Refetching => Refetching')
  <2>1. PICK m \in BagToSet(net) : ServeRead(m) \/ ServeSend(m) \/ ServePending(m) \/ ServeForget(m)
    BY <1>6 DEF Serve
  <2>2. ASSUME NEW body, Answer(m, body) PROVE Refetching => Refetching'
    <3>1. [m EXCEPT !.pc = "answered", !.body = body].kind = m.kind
      BY <1>4 DEF Request
    <3>2. QED BY <1>3, <2>2, <3>1 DEF Answer
  <2>3. CASE ServeRead(m) \/ ServePending(m) \/ ServeForget(m)
    <3>1. \E body : Answer(m, body)
      BY <2>3 DEF ServeRead, ServePending, ServeForget
    <3>2. QED BY <1>6, <2>2, <3>1 DEF Serve, page
  <2>4. CASE ServeSend(m)
    <3>1. PICK b \in BOOLEAN :
            net' = BagAdd(BagRemove(net, m),
              [m EXCEPT !.pc = "answered", !.body = {[tag |-> m.tag, cap |-> clock', rev |-> 0]},
                        !.contradicted = b])
      BY <2>4 DEF ServeSend
    <3>2. [m EXCEPT !.pc = "answered", !.body = {[tag |-> m.tag, cap |-> clock', rev |-> 0]},
                    !.contradicted = b].kind = m.kind
      BY <1>4 DEF Request
    <3>3. QED BY <1>3, <1>6, <3>1, <3>2 DEF Serve, page
  <2>5. QED BY <2>1, <2>3, <2>4
<1>7. QED BY <1>2, <1>5, <1>6 DEF Next

\* The report shown is that of the village named, whatever requests are in
\* flight and in whatever order they are answered or fail.
THEOREM ReportNamed == Spec => []ShownIsNamed
<1>1. Init => ShownIsNamed
  BY DEF Init, ShownIsNamed
<1>2. Inv /\ ShownIsNamed /\ [Next]_vars => ShownIsNamed'
  <2> SUFFICES ASSUME Inv, ShownIsNamed, [Next]_vars PROVE ShownIsNamed'
    OBVIOUS
  <2>1. CASE \E kind \in Kinds : Deliver(kind)
    BY <2>1, DeliverShown
  <2>2. CASE ~ \E kind \in Kinds : Deliver(kind)
    BY <2>2, OtherSteps DEF ShownIsNamed, Refetching
  <2>3. QED BY <2>1, <2>2
<1>3. QED BY <1>1, <1>2, InitInv, NextInv, PTL DEF Spec

-----------------------------------------------------------------------------
(***************************************************************************)
(* A village chosen stays chosen: what is answered to a poll, a claim or a *)
(* cancel is a content of the village they were sent for.                  *)
(***************************************************************************)
Keeps ==
  tag' # tag =>
    \A m \in BagToSet(net) :
      /\ m.kind \in {"poll", "pending"} /\ m.on # None
      /\ Copies(m, net') < Copies(m, net)
      => m.on # tag

\* One answer is taken off the network at a time.
LEMMA OnlyOne ==
  ASSUME Inv, NEW m \in BagToSet(net), NEW x \in BagToSet(net) \ {m}, NEW t, NEW r,
         \/ Render(t, r, BagRemove(net, m))
         \/ \E S : Render(t, r, BagRemove(net, m) (+) SetToBag(S))
  PROVE  ~(Copies(x, net') < Copies(x, net))
<1> DEFINE rest == BagRemove(net, m)
<1>1. IsABag(rest) /\ Copies(x, rest) = Copies(x, net)
  BY Removed DEF Inv, TypeOK
<1>2. \A y, B : IsABag(B) => Copies(y, B) \in Nat
  BY DEF IsABag, Copies, BagToSet
<1>3. IsABag(net)
  BY DEF Inv, TypeOK
<1> HIDE DEF rest
<1>4. ASSUME NEW B, IsABag(B), Render(t, r, B)
      PROVE  IsABag(net') /\ Copies(x, net') >= Copies(x, B)
  <2>1. CASE net' = B
    BY <1>2, <1>4, <2>1
  <2>2. CASE net' = BagAdd(B, ListVillages)
    BY <1>4, <2>2, Added
  <2>3. QED BY <1>4, <2>1, <2>2 DEF Render
<1>5. CASE Render(t, r, rest)
  BY <1>1, <1>2, <1>3, <1>4, <1>5
<1>6. ASSUME NEW S, Render(t, r, rest (+) SetToBag(S))
      PROVE  ~(Copies(x, net') < Copies(x, net))
  <2>1. /\ IsABag(rest (+) SetToBag(S))
        /\ Copies(x, rest (+) SetToBag(S)) >= Copies(x, rest)
    BY <1>1, Joined
  <2>2. IsABag(net') /\ Copies(x, net') >= Copies(x, rest (+) SetToBag(S))
    BY <1>4, <1>6, <2>1
  <2>3. QED BY <1>1, <1>2, <1>3, <2>1, <2>2
<1>7. QED BY <1>5, <1>6 DEF rest

\* However many polls, claims and cancels are in flight, none of their answers
\* takes the page away from the village it was on when they were sent.
THEOREM PollsKeepVillage == Spec => PollKeepsVillage
<1>1. Inv /\ [Next]_vars => [Keeps]_vars
  <2> SUFFICES ASSUME Inv, [Next]_vars, tag' # tag,
                      NEW x \in BagToSet(net), x.kind \in {"poll", "pending"}, x.on # None,
                      Copies(x, net') < Copies(x, net)
               PROVE  x.on # tag
    BY DEF Keeps
  <2>1. PICK kind \in Kinds : Deliver(kind)
    BY OtherSteps
  <2>2. PICK m \in BagToSet(net) :
          \/ AnswerReport(m) \/ AnswerSend(m) \/ AnswerForget(m)
          \/ AnswerRefetch(m) \/ AnswerVillages(m)
    BY <2>1 DEF Deliver
  <2>3. ~AnswerVillages(m)
    BY DEF AnswerVillages
  <2>4. \E t, r : \/ Render(t, r, BagRemove(net, m))
                  \/ \E S : Render(t, r, BagRemove(net, m) (+) SetToBag(S))
    <3>1. ASSUME ApplyReport(m, BagRemove(net, m))
          PROVE  \E t, r : Render(t, r, BagRemove(net, m))
      BY <3>1 DEF ApplyReport
    <3>2. QED BY <2>2, <2>3, <3>1 DEF AnswerReport, AnswerSend, AnswerForget, AnswerRefetch
  <2>5. m = x
    BY <2>4, OnlyOne
  <2>6. AnswerReport(x)
    BY <2>2, <2>5 DEF AnswerSend, AnswerForget, AnswerRefetch, AnswerVillages
  <2>7. PICK c \in x.body : tag' = c.tag
    BY <2>6 DEF AnswerReport, ApplyReport, Render
  <2>8. c.tag = x.on
    BY <2>7 DEF Inv, AllFit, Fit
  <2>9. QED BY <2>7, <2>8
<1>2. QED BY <1>1, InitInv, NextInv, PTL DEF Spec, PollKeepsVillage, Keeps
=============================================================================
