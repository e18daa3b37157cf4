------------------------------ MODULE Settings ------------------------------
(***************************************************************************)
(* The owner's settings and the visits cut from them: the salon's policy   *)
(* (packages/db/settings/business.ts), its services with their parts and   *)
(* who does them (services.ts, segments.ts), its stylists (providers.ts),  *)
(* and the length and pattern a booking or a change of services takes from *)
(* these rows (book.ts, change-services.ts, core/settings).                *)
(*                                                                         *)
(* The settings screens pass the client, not a transaction: each statement *)
(* of a save commits by itself, between it and the next any other desk     *)
(* saves and any booking reads.  Names, prices, buffers and the order of   *)
(* the lists are left out; when a visit is, and whether its time is free,  *)
(* is Book's affair.                                                       *)
(***************************************************************************)
EXTENDS Integers, Sequences, FiniteSets, SequencesExt

CONSTANTS
  Desk, Service, Provider,
  Parts,         \* lists of parts the editor posts, <<[minutes, isGap], ...>>
  Minutes,       \* durations typed into a service or an override
  Notice,        \* lead times and cutoffs typed into a form
  Basket,        \* what is booked: lists of services
  None,          \* NULL: no override, no cutoff of its own
  MaxEdits, MaxVisits   \* bounds

VARIABLES
  policy,   \* the business's minimumLeadMinutes and cancellationCutoffMinutes
  menu,     \* service -> its row
  parts,    \* service -> its active ServiceSegment rows, in order
  links,    \* <<provider, service>> -> None or the override, for the qualified
  roster,   \* the active providers
  visits,   \* the visits in the book
  desk,     \* what each desk has read and will write
  call,     \* the booking under way
  edits     \* how many saves began

settingsVars == <<policy, menu, parts, links, roster, visits, desk, call, edits>>

idle == [at |-> "idle"]
Absent == [exists |-> FALSE, active |-> FALSE, minutes |-> 0, cutoff |-> None]
-----------------------------------------------------------------------------
(* core/settings/policy.ts                                                 *)

Default(own, base) == IF own = None THEN base ELSE own
activeServices == {s \in Service : menu[s].exists /\ menu[s].active}

\* worstCutoff: the longest a visit of these services could be subject to.
worstCutoff(business, services) ==
  LET cutoffs == ({business} \cup {menu[s].cutoff : s \in services}) \ {None}
  IN CHOOSE c \in cutoffs : \A d \in cutoffs : d <= c

validateBusinessPolicy(p) == worstCutoff(p.cutoff, activeServices) <= p.lead
validateServiceCutoff(cutoff, p) == cutoff # None => cutoff <= p.lead
-----------------------------------------------------------------------------
(* core/settings/segments.ts                                               *)

sumMinutes(list) == FoldLeft(LAMBDA total, part : total + part.minutes, 0, list)
Whole(minutes) == <<[minutes |-> minutes, isGap |-> FALSE]>>
segmentsOrWhole(list, minutes) == IF list = <<>> THEN Whole(minutes) ELSE list

validateSegmentStructure(list) ==
  list # <<>> =>
    /\ Len(list) > 1
    /\ \A i \in DOMAIN list : list[i].minutes > 0
    /\ ~Head(list).isGap /\ ~Last(list).isGap
    /\ \A i \in 2 .. Len(list) : ~(list[i].isGap /\ list[i - 1].isGap)

isActive(part) == ~part.isGap
isGap(part) == part.isGap

\* Mutant: the gaps are scaled like the parts she works through.
MutscaleSegments(list, total) ==
  LET n == Len(list)
      scaled(i) == LET m == (list[i].minutes * total) \div sumMinutes(list) IN IF m < 1 THEN 1 ELSE m
      before == FoldLeft(LAMBDA t, i : t + scaled(i), 0, [i \in 1 .. n - 1 |-> i])
  IN IF total - before < 1 THEN <<>>
     ELSE [i \in 1 .. n |-> [list[i] EXCEPT !.minutes = IF i = n THEN total - before ELSE scaled(i)]]

\* The parts she works through share what the gaps leave, in proportion and
\* rounded, and the last takes the remainder; <<>> when one would get nothing.
scaleSegments(list, total) ==
  LET gapTotal == sumMinutes(SelectSeq(list, isGap))
      activeTotal == sumMinutes(SelectSeq(list, isActive))
      target == total - gapTotal
      worked == {i \in DOMAIN list : isActive(list[i])}
      lastActive == CHOOSE i \in worked : \A j \in worked : j <= i
      share(i) == LET m == (2 * list[i].minutes * target + activeTotal) \div (2 * activeTotal)
                  IN IF m < 1 THEN 1 ELSE m
      assigned == FoldLeft(LAMBDA t, i : IF i \in worked \ {lastActive} THEN t + share(i) ELSE t,
                           0, [i \in DOMAIN list |-> i])
      rest == target - assigned
  IN IF target < Cardinality(worked) \/ rest <= 0 THEN <<>>
     ELSE [i \in DOMAIN list |->
            IF isGap(list[i]) THEN list[i]
            ELSE [list[i] EXCEPT !.minutes = IF i = lastActive THEN rest ELSE share(i)]]

\* A line is what one service of a visit takes: its minutes, as agreed, and
\* the service's own minutes and parts when it was looked up.
scaledLine(line) == scaleSegments(segmentsOrWhole(line.parts, line.base), line.minutes)
flatten(lines) ==
  FlattenSeq([i \in DOMAIN lines |->
    LET scaled == scaledLine(lines[i]) IN IF scaled = <<>> THEN Whole(lines[i].minutes) ELSE scaled])

\* Minutes worked, free, worked ...: neighbours of one kind are one run, and a
\* visit without a gap has no pattern.
visitPattern(lines) ==
  LET extend(pattern, part) ==
        LET n == Len(pattern) IN
        IF n > 0 /\ (n - 1) % 2 = (IF part.isGap THEN 1 ELSE 0)
        THEN [pattern EXCEPT ![n] = @ + part.minutes]
        ELSE Append(pattern, part.minutes)
  IN IF SelectSeq(flatten(lines), isGap) = <<>> THEN <<>> ELSE FoldLeft(extend, <<>>, flatten(lines))

Total(numbers) == FoldLeft(LAMBDA t, n : t + n, 0, numbers)

\* The stripes of a stored pattern, and those of the lines it was cut from.
patternGapSpans(pattern) ==
  { [offset |-> Total(SubSeq(pattern, 1, i - 1)), minutes |-> pattern[i]] :
      i \in {j \in DOMAIN pattern : j % 2 = 0} }
gapSpans(list) ==
  { [offset |-> sumMinutes(SubSeq(list, 1, i - 1)), minutes |-> list[i].minutes] :
      i \in {j \in DOMAIN list : isGap(list[j])} }
visitGapSpans(lines) ==
  UNION { LET before == Total([j \in 1 .. i - 1 |-> lines[j].minutes])
          IN {[span EXCEPT !.offset = @ + before] : span \in gapSpans(scaledLine(lines[i]))} :
          i \in DOMAIN lines }

composeVisit(lines) == Total([i \in DOMAIN lines |-> lines[i].minutes])
-----------------------------------------------------------------------------
(* The business, a service, its parts.                                     *)

Begins(d) == desk[d] = idle /\ edits < MaxEdits /\ edits' = edits + 1
Holds(d, state) == desk' = [desk EXCEPT ![d] = state]

\* updateBusinessSettings: the active services are read, then the row written.
updateBusinessSettings(d, p) ==
  /\ Begins(d)
  /\ validateBusinessPolicy(p)
  /\ Holds(d, [at |-> "policy", policy |-> p])
  /\ UNCHANGED <<policy, menu, parts, links, roster, visits, call>>

WritePolicy(d) ==
  /\ desk[d].at = "policy"
  /\ policy' = desk[d].policy
  /\ Holds(d, idle)
  /\ UNCHANGED <<menu, parts, links, roster, visits, call, edits>>

\* createService and updateService: the business is read against the form's
\* cutoff, ...
assertValid(d, s, minutes, cutoff) ==
  /\ Begins(d)
  /\ validateServiceCutoff(cutoff, policy)
  /\ Holds(d, [at |-> IF menu[s].exists THEN "service" ELSE "row",
               service |-> s, minutes |-> minutes, cutoff |-> cutoff])
  /\ UNCHANGED <<policy, menu, parts, links, roster, visits, call>>

\* ... then the parts against its duration, ...
assertSegmentsStillAddUp(d) ==
  /\ desk[d].at = "service"
  /\ LET list == parts[desk[d].service]
     IN Holds(d, IF list = <<>> \/ sumMinutes(list) = desk[d].minutes
                 THEN [desk[d] EXCEPT !.at = "row"] ELSE idle)
  /\ UNCHANGED <<policy, menu, parts, links, roster, visits, call, edits>>

\* ... and the row is written.  A new service is on the menu at once.
WriteService(d) ==
  LET s == desk[d].service IN
  /\ desk[d].at = "row"
  /\ menu' = [menu EXCEPT ![s] =
       [exists |-> TRUE, active |-> IF @.exists THEN @.active ELSE TRUE,
        minutes |-> desk[d].minutes, cutoff |-> desk[d].cutoff]]
  /\ Holds(d, idle)
  /\ UNCHANGED <<policy, parts, links, roster, visits, call, edits>>

\* replaceSegments: the old rows go, ...
replaceSegments(d, s, list) ==
  /\ Begins(d)
  /\ menu[s].exists /\ validateSegmentStructure(list)
  /\ parts' = [parts EXCEPT ![s] = <<>>]
  /\ Holds(d, IF list = <<>> THEN idle ELSE [at |-> "insert", service |-> s, list |-> list])
  /\ UNCHANGED <<policy, menu, links, roster, visits, call>>

\* Mutant: nothing refuses a second row with the ordinal of another.
MutInsertable(old, list) == TRUE

\* UNIQUE (serviceId, ordinal): a whole list or nothing.
Insertable(old, list) == old = <<>>

\* ... the new ones come, ...
InsertParts(d) ==
  LET s == desk[d].service IN
  /\ desk[d].at = "insert"
  /\ IF Insertable(parts[s], desk[d].list)
     THEN /\ parts' = [parts EXCEPT ![s] = @ \o desk[d].list]
          /\ Holds(d, [desk[d] EXCEPT !.at = "total"])
     ELSE Holds(d, idle) /\ UNCHANGED parts
  /\ UNCHANGED <<policy, menu, links, roster, visits, call, edits>>

\* ... and the service takes their total.
WriteTotal(d) ==
  /\ desk[d].at = "total"
  /\ menu' = [menu EXCEPT ![desk[d].service].minutes = sumMinutes(desk[d].list)]
  /\ Holds(d, idle)
  /\ UNCHANGED <<policy, parts, links, roster, visits, call, edits>>
-----------------------------------------------------------------------------
(* Who is on the menu, and who does what.                                  *)

\* countServiceFutureAppointments, countFutureAppointments: what is booked of
\* it; every visit of the model lies ahead.
Booked(services, providers) ==
  { v \in Range(visits) :
      v.provider \in providers /\ \E i \in DOMAIN v.lines : v.lines[i].service \in services }

\* setServiceActive: off the menu only if nothing is booked or the desk has
\* seen how much; back on without a question.
setServiceActive(d, s, on, confirm) ==
  /\ Begins(d)
  /\ menu[s].exists
  /\ on \/ confirm \/ Booked({s}, Provider) = {}
  /\ Holds(d, [at |-> "active", service |-> s, on |-> on])
  /\ UNCHANGED <<policy, menu, parts, links, roster, visits, call>>

WriteActive(d) ==
  /\ desk[d].at = "active"
  /\ menu' = [menu EXCEPT ![desk[d].service].active = desk[d].on]
  /\ Holds(d, idle)
  /\ UNCHANGED <<policy, parts, links, roster, visits, call, edits>>

\* toggleProviderActive: the same question, with the list of who is booked.
setProviderActive(d, p, on, confirm) ==
  /\ Begins(d)
  /\ on \/ confirm \/ Booked(Service, {p}) = {}
  /\ Holds(d, [at |-> "roster", provider |-> p, on |-> on])
  /\ UNCHANGED <<policy, menu, parts, links, roster, visits, call>>

WriteRoster(d) ==
  /\ desk[d].at = "roster"
  /\ roster' = IF desk[d].on THEN roster \cup {desk[d].provider} ELSE roster \ {desk[d].provider}
  /\ Holds(d, idle)
  /\ UNCHANGED <<policy, menu, parts, links, visits, call, edits>>

assertOverrideFitsSegments(s, override) ==
  override # None /\ parts[s] # <<>> => scaleSegments(parts[s], override) # <<>>

\* qualifyProvider, and its upsert.
qualifyProvider(d, p, s, override) ==
  /\ Begins(d)
  /\ menu[s].exists /\ assertOverrideFitsSegments(s, override)
  /\ Holds(d, [at |-> "link", link |-> <<p, s>>, override |-> override])
  /\ UNCHANGED <<policy, menu, parts, links, roster, visits, call>>

WriteLink(d) ==
  LET link == desk[d].link IN
  /\ desk[d].at = "link"
  /\ links' = [l \in DOMAIN links \cup {link} |-> IF l = link THEN desk[d].override ELSE links[l]]
  /\ Holds(d, idle)
  /\ UNCHANGED <<policy, menu, parts, roster, visits, call, edits>>

unqualifyProvider(d, p, s, confirm) ==
  /\ Begins(d)
  /\ confirm \/ Booked({s}, {p}) = {}
  /\ Holds(d, [at |-> "unlink", link |-> <<p, s>>])
  /\ UNCHANGED <<policy, menu, parts, links, roster, visits, call>>

DeleteLink(d) ==
  /\ desk[d].at = "unlink"
  /\ links' = [l \in DOMAIN links \ {desk[d].link} |-> links[l]]
  /\ Holds(d, idle)
  /\ UNCHANGED <<policy, menu, parts, roster, visits, call, edits>>

\* A process that dies between two statements of a save.
Dies(d) ==
  /\ desk[d] # idle
  /\ Holds(d, idle)
  /\ UNCHANGED <<policy, menu, parts, links, roster, visits, call, edits>>
-----------------------------------------------------------------------------
(* A visit takes its length and its pattern from these rows.               *)

Qualified(p, basket) == \A i \in DOMAIN basket : <<p, basket[i]>> \in DOMAIN links
effectiveMinutes(p, s) == Default(links[<<p, s>>], menu[s].minutes)

\* The lines of a visit as the first query finds them; kept[i] is what the
\* client has agreed to for line i, or None.
resolveLinks(p, basket, kept) ==
  [i \in DOMAIN basket |->
    [service |-> basket[i], base |-> menu[basket[i]].minutes,
     minutes |-> Default(kept[i], effectiveMinutes(p, basket[i])), parts |-> <<>>]]

\* writeAppointment: she does all of it, and the engine offered the time unless
\* a desk overrides it.
bookAppointment(p, basket, isOverride) ==
  /\ call = idle /\ Len(visits) < MaxVisits
  /\ Qualified(p, basket)
  /\ isOverride \/ (p \in roster /\ Range(basket) \subseteq activeServices)
  /\ call' = [at |-> "parts", visit |-> Len(visits) + 1, provider |-> p,
              lines |-> resolveLinks(p, basket, [i \in DOMAIN basket |-> None])]
  /\ UNCHANGED <<policy, menu, parts, links, roster, visits, desk, edits>>

\* The k-th line of a service keeps what the k-th line of it was.
previous(lines, basket, i) ==
  LET s == basket[i]
      nth == Cardinality({j \in 1 .. i - 1 : basket[j] = s})
      of == {j \in DOMAIN lines : lines[j].service = s}
      match == {j \in of : Cardinality({k \in of : k < j}) = nth}
  IN IF match = {} THEN None ELSE lines[CHOOSE j \in match : TRUE].minutes

\* changeVisitServices: other services for the same client.
changeVisitServices(n, basket) ==
  LET v == visits[n] IN
  /\ call = idle
  /\ Qualified(v.provider, basket)
  /\ basket # [i \in DOMAIN v.lines |-> v.lines[i].service]
  /\ call' = [at |-> "parts", visit |-> n, provider |-> v.provider,
              lines |-> resolveLinks(v.provider, basket, [i \in DOMAIN basket |-> previous(v.lines, basket, i)])]
  /\ UNCHANGED <<policy, menu, parts, links, roster, visits, desk, edits>>

\* The relation is loaded by a query of its own; then the visit is written.
WriteVisit ==
  LET lines == [i \in DOMAIN call.lines |->
                 [call.lines[i] EXCEPT !.parts = parts[call.lines[i].service]]]
      visit == [provider |-> call.provider, lines |-> lines, minutes |-> composeVisit(lines),
                pattern |-> visitPattern(lines)]
  IN
  /\ call.at = "parts"
  /\ visits' = IF call.visit > Len(visits) THEN Append(visits, visit)
               ELSE [visits EXCEPT ![call.visit] = visit]
  /\ call' = idle
  /\ UNCHANGED <<policy, menu, parts, links, roster, desk, edits>>
-----------------------------------------------------------------------------
\* A salon that does one thing, and everybody does it.
SettingsInit ==
  /\ \E s \in Service, minutes \in Minutes, cutoff \in Notice :
       /\ menu = [x \in Service |->
                   IF x = s THEN [exists |-> TRUE, active |-> TRUE, minutes |-> minutes, cutoff |-> cutoff]
                   ELSE Absent]
       /\ links = [l \in Provider \X {s} |-> None]
  /\ \E lead, cutoff \in Notice \ {None} : policy = [lead |-> lead, cutoff |-> cutoff]
  /\ validateBusinessPolicy(policy)
  /\ parts = [s \in Service |-> <<>>]
  /\ roster = Provider /\ visits = <<>>
  /\ desk = [d \in Desk |-> idle]
  /\ call = idle /\ edits = 0

\* What the forms of the settings screens post.
SaveBusiness(d) ==
  \E lead, cutoff \in Notice \ {None} : updateBusinessSettings(d, [lead |-> lead, cutoff |-> cutoff])
SaveService(d) ==
  \E s \in Service, minutes \in Minutes, cutoff \in Notice : assertValid(d, s, minutes, cutoff)
SaveSegments(d) == \E s \in Service, list \in Parts : replaceSegments(d, s, list)
ToggleService(d) == \E s \in Service, on, confirm \in BOOLEAN : setServiceActive(d, s, on, confirm)
ToggleProvider(d) == \E p \in Provider, on, confirm \in BOOLEAN : setProviderActive(d, p, on, confirm)
ToggleQualification(d) ==
  \E p \in Provider, s \in Service :
    \/ \E override \in Minutes \cup {None} : qualifyProvider(d, p, s, override)
    \/ \E confirm \in BOOLEAN : unqualifyProvider(d, p, s, confirm)

Save(d) ==
  \/ SaveBusiness(d) \/ SaveService(d) \/ SaveSegments(d)
  \/ ToggleService(d) \/ ToggleProvider(d) \/ ToggleQualification(d)

Statement(d) ==
  \/ WritePolicy(d) \/ assertSegmentsStillAddUp(d) \/ WriteService(d)
  \/ InsertParts(d) \/ WriteTotal(d)
  \/ WriteActive(d) \/ WriteRoster(d) \/ WriteLink(d) \/ DeleteLink(d)
  \/ Dies(d)

SettingsNext ==
  \/ \E d \in Desk : Save(d) \/ Statement(d)
  \/ \E p \in Provider, basket \in Basket, isOverride \in BOOLEAN : bookAppointment(p, basket, isOverride)
  \/ \E n \in DOMAIN visits, basket \in Basket : changeVisitServices(n, basket)
  \/ WriteVisit

SettingsSpec == SettingsInit /\ [][SettingsNext]_settingsVars
-----------------------------------------------------------------------------
\* Whatever two desks save in between, statement by statement, a visit's pattern
\* adds up to its body, begins and ends with work, and stripes the gaps of one
\* list of parts somebody saved, each as long as it was saved: a gap never
\* scales with her speed and two lists never mix (SEG-01, SEG-02, D-29).
EveryVisitFits ==
  \A n \in DOMAIN visits :
    LET v == visits[n] IN
    /\ \A i \in DOMAIN v.lines : v.lines[i].parts \in Parts \cup {<<>>}
    /\ v.pattern # <<>> =>
         /\ Len(v.pattern) % 2 = 1
         /\ \A i \in DOMAIN v.pattern : v.pattern[i] > 0
         /\ Total(v.pattern) = v.minutes
    /\ patternGapSpans(v.pattern) = visitGapSpans(v.lines)
    /\ \A span \in patternGapSpans(v.pattern) :
         \E i \in DOMAIN v.lines : \E j \in DOMAIN v.lines[i].parts :
           v.lines[i].parts[j] = [minutes |-> span.minutes, isGap |-> TRUE]

\* LEAD_VS_CUTOFF_RULE: "minimumLeadMinutes must be >= every cancellation cutoff
\* in force (business, and each active service override)" (policy.ts:11).
LeadCoversCutoffs == validateBusinessPolicy(policy)

\* Not checked, for the code does not keep them.  The three statements of
\* replaceSegments were to be one transaction (segments.ts:54): between them, and
\* for good if the process dies there or another desk saves the duration, the
\* parts do not add up to the service.
PartsAddUp ==
  \A s \in Service : parts[s] # <<>> => sumMinutes(parts[s]) = menu[s].minutes

\* The parts are saved without a look at the overrides that were saved to fit
\* the old ones (SEG-02): the longer gap leaves a quick stylist no minute.
OverridesFit ==
  \A l \in DOMAIN links : assertOverrideFitsSegments(l[2], links[l])
=============================================================================
