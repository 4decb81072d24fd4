---------------------------------- MODULE Links ----------------------------------
(***************************************************************************)
(* Links between objects of different connections, as lib/links,           *)
(* stores/links, CreateLinkDialog and the menus of RedisKeyView have them: *)
(* which links a key offers and where, what value is read from it, the key *)
(* that value leads to, and the way back.                                  *)
(*                                                                         *)
(* A key, a pattern and a value are sequences of symbols; Star is the      *)
(* wildcard, Dollar what String.replace gives a meaning to.  A link has    *)
(* two ends, each with its connection, kind, scope (a pattern of keys or   *)
(* the name of a table or a topic) and field.  The keys are those of one   *)
(* connection, Here.                                                       *)
(***************************************************************************)
EXTENDS Integers, Sequences, FiniteSets, SequencesExt, Subsequence

CONSTANTS
  Here,            \* the connection on screen
  Keys,            \* its keys
  Contents,        \* what each key holds: its text, its fields, its elements
  Star, Dollar,
  StoredLinks,     \* lists of links the server may hold at first
  Drafts,          \* what is typed into the dialog of a new link
  MenuCap,         \* LINK_MENU_CAP
  MaxClicks,       \* bound: what the user does
  MaxBroken,       \* bound: requests that fail
  NoValue

IsEnd(end) ==
  /\ DOMAIN end = {"conn", "kind", "scope", "field"}
  /\ end.kind = "redis" => end.scope \in Seq(Range(end.scope))
IsLink(l) == DOMAIN l = {"id", "source", "extract", "target"} /\ IsEnd(l.source) /\ IsEnd(l.target)

(* A link keeps its id, and the id of a new one was never used. *)
ASSUME LinksAssumption ==
  /\ MenuCap \in Nat \ {0} /\ MaxClicks \in Nat /\ MaxBroken \in Nat
  /\ DOMAIN Contents = Keys /\ (\A k \in Keys : k \in Seq(Range(k))) /\ \A d \in Drafts : IsLink(d)
  /\ \A s \in StoredLinks :
       s \in Seq(Range(s)) /\ \A n \in DOMAIN s : IsLink(s[n]) /\ s[n].id \notin 0..(MaxClicks - 1)

VARIABLES
  saved,           \* the links the server has
  links,           \* useLinksStore
  wires,           \* requests under way
  key,             \* the key of the mounted RedisKeyView, NoValue elsewhere
  menu,            \* memberMenu: the element that was right-clicked
  picker,          \* pickerGroup: the group LinkPickerDialog shows
  form,            \* CreateLinkDialog: open, and whether it saves
  clicks, broken,
  outdated         \* history: the list may be older than the server's

linkVars == <<saved, links, wires, key, menu, picker, form, clicks, broken, outdated>>
-----------------------------------------------------------------------------
(* Patterns and values. *)

Stars(p) == {i \in DOMAIN p : p[i] = Star}
FirstStar(p) == CHOOSE i \in Stars(p) : \A n \in Stars(p) : i <= n
Prefix(p) == SubSeq(p, 1, FirstStar(p) - 1)
Suffix(p) == SubSeq(p, FirstStar(p) + 1, Len(p))

(* What String.replace puts in for a value: of two dollars in a row the    *)
(* second goes.                                                            *)
DollarsUpTo(value, i) == {j \in 1..i : \A n \in j..i : value[n] = Dollar}
Replacement(value) ==
  Filtered(value, {i \in DOMAIN value :
                     value[i] # Dollar \/ Cardinality(DollarsUpTo(value, i)) % 2 = 1})

BuildRedisKey(p, value) ==
  IF Stars(p) = {} THEN p ELSE Prefix(p) \o Replacement(value) \o Suffix(p)

(* Mutant: the two sides of the star may overlap in the key. *)
OverlapMatches(p, k) ==
  IF Stars(p) = {} THEN p = k ELSE IsPrefix(Prefix(p), k) /\ IsSuffix(Suffix(p), k)
RedisKeyMatchesPattern(p, k) ==
  IF Stars(p) = {} THEN p = k
  ELSE Len(k) >= Len(Prefix(p)) + Len(Suffix(p)) /\ IsPrefix(Prefix(p), k) /\ IsSuffix(Suffix(p), k)

CaptureFromKey(p, k) ==
  IF Stars(p) = {} \/ ~RedisKeyMatchesPattern(p, k) THEN NoValue
  ELSE SubSeq(k, Len(Prefix(p)) + 1, Len(k) - Len(Suffix(p)))

(* A hash field, or a path into a value that is JSON. *)
FieldOf(content, field) == IF field \in DOMAIN content.fields THEN content.fields[field] ELSE NoValue

ExtractRedisValue(link, k) ==
  CASE link.extract = "key_capture" -> CaptureFromKey(link.source.scope, k)
    [] link.extract = "string_value" -> IF Contents[k].text = <<>> THEN NoValue ELSE Contents[k].text
    [] link.extract = "value_field" -> FieldOf(Contents[k], link.source.field)
    [] OTHER -> NoValue
-----------------------------------------------------------------------------
(* Which links belong where. *)

CanReverse(link) == link.source.kind = "redis" => link.extract = "key_capture"
IsPerElementExtract(link) == link.extract \in {"member", "selection"}

IsRedisEnd(end, k) == end.conn = Here /\ end.kind = "redis" /\ RedisKeyMatchesPattern(end.scope, k)

KeyLevelRedisLinks(k) ==
  SelectSeq(links, LAMBDA l : IsRedisEnd(l.source, k) /\ ~IsPerElementExtract(l))
PerElementLinks(k) == SelectSeq(links, LAMBDA l : IsRedisEnd(l.source, k) /\ IsPerElementExtract(l))
MemberRedisLinks(k) == SelectSeq(links, LAMBDA l : IsRedisEnd(l.source, k) /\ l.extract = "member")
ValueRedisLinks(k) ==
  SelectSeq(links, LAMBDA l : IsRedisEnd(l.source, k) /\ l.extract \in {"string_value", "value_field"})
SelectionRedisLinks(k, field) ==
  SelectSeq(links, LAMBDA l : /\ IsRedisEnd(l.source, k) /\ l.extract = "selection"
                              /\ l.source.field \in {NoValue, field})
ReverseLinks(k) == SelectSeq(links, LAMBDA l : IsRedisEnd(l.target, k) /\ CanReverse(l))
InboundOnlyLinks(k) == SelectSeq(links, LAMBDA l : IsRedisEnd(l.target, k) /\ ~CanReverse(l))

(* The groups of the Links menu and of the menu of an element.             *)
Group(g) ==
  CASE g = "key" -> KeyLevelRedisLinks(key) [] g = "reverse" -> ReverseLinks(key)
    [] g = "perElement" -> PerElementLinks(key) [] g = "inbound" -> InboundOnlyLinks(key)
    [] g = "value" -> ValueRedisLinks(key) [] g = "member" -> MemberRedisLinks(key)
    [] g = "selection" -> SelectionRedisLinks(key, menu.field)

HeaderGroups == {"key", "reverse", "perElement", "inbound"}
ElementGroups == {"value", "member", "selection"}
(* Two groups have no "Show all". *)
PickerGroups == {"key", "reverse", "perElement", "member", "selection"}

Capped(s) == SubSeq(s, 1, IF Len(s) < MenuCap THEN Len(s) ELSE MenuCap)
HasShowAll(g) == g \in PickerGroups /\ Len(Group(g)) > MenuCap

(* The value an item of a group carries, NoValue when it is disabled.      *)
ItemValue(g, link) ==
  CASE g \in {"key", "value"} -> ExtractRedisValue(link, key)
    [] g = "reverse" -> CaptureFromKey(link.target.scope, key)
    [] g = "member" -> menu.member
    [] g = "selection" -> menu.token
    [] OTHER -> NoValue

(* The items of LinkPickerDialog: a group of an element needs its menu.    *)
PickerItems ==
  IF picker = NoValue \/ (picker \in ElementGroups /\ menu = NoValue) THEN <<>> ELSE Group(picker)
-----------------------------------------------------------------------------
(* Following a link. *)

(* What a request leaves the client with; answer is what the server says,  *)
(* missed (history) what it did since, sound whether the list holds with it.*)
Wire(kind) ==
  [kind |-> kind, id |-> clicks, link |-> NoValue, at |-> Here, to |-> NoValue, answer |-> NoValue,
   dialog |-> TRUE, done |-> FALSE, missed |-> {}, sound |-> TRUE]

Clicks == clicks < MaxClicks /\ clicks' = clicks + 1
Blocked == menu # NoValue \/ picker # NoValue \/ form.open

(* Another page is shown: what the dialog of this one waits for finds it gone. *)
Unmounted(ws) == {[w EXCEPT !.dialog = FALSE] : w \in ws}

(* A key is looked up by type first; a table or a topic is another page.   *)
OpenLinkEnd(end, value) ==
  IF end.kind = "redis"
  THEN /\ wires' = wires \cup
            {[Wire("type") EXCEPT !.at = end.conn, !.to = BuildRedisKey(end.scope, value)]}
       /\ UNCHANGED key
  ELSE key' = NoValue /\ wires' = Unmounted(wires)

End(g, link) == IF g = "reverse" THEN link.source ELSE link.target

(* An item of the menu in the header, or a chip; of the menu of an element;*)
(* of the dialog that lists a whole group.                                 *)
FollowFromHeader(g, link) ==
  /\ Clicks /\ key # NoValue /\ ~Blocked
  /\ g \in HeaderGroups /\ link \in Range(Capped(Group(g))) /\ ItemValue(g, link) # NoValue
  /\ OpenLinkEnd(End(g, link), ItemValue(g, link))
  /\ UNCHANGED <<saved, links, menu, picker, form, broken, outdated>>

FollowFromElement(g, link) ==
  /\ Clicks /\ key # NoValue /\ menu # NoValue /\ picker = NoValue /\ ~form.open
  /\ g \in ElementGroups /\ link \in Range(Capped(Group(g))) /\ ItemValue(g, link) # NoValue
  /\ OpenLinkEnd(link.target, ItemValue(g, link))
  /\ menu' = NoValue
  /\ UNCHANGED <<saved, links, picker, form, broken, outdated>>

FollowFromPicker(link) ==
  /\ Clicks /\ key # NoValue /\ link \in Range(PickerItems) /\ ItemValue(picker, link) # NoValue
  /\ OpenLinkEnd(End(picker, link), ItemValue(picker, link))
  /\ menu' = IF picker \in ElementGroups THEN NoValue ELSE menu
  /\ picker' = NoValue
  /\ UNCHANGED <<saved, links, form, broken, outdated>>

OpenElementMenu(member, field, token) ==
  /\ Clicks /\ key # NoValue /\ ~Blocked
  /\ field = NoValue \/ field \in DOMAIN Contents[key].fields
  /\ menu' = [member |-> member, field |-> field, token |-> token]
  /\ UNCHANGED <<saved, links, wires, key, picker, form, broken, outdated>>

ShowAll(g) ==
  /\ Clicks /\ key # NoValue /\ picker = NoValue /\ ~form.open
  /\ IF menu = NoValue THEN g \in HeaderGroups ELSE g \in ElementGroups
  /\ HasShowAll(g) /\ picker' = g
  /\ UNCHANGED <<saved, links, wires, key, menu, form, broken, outdated>>

(* Escape is for both, a click beside the dialog only for the dialog. *)
CloseMenus ==
  /\ menu # NoValue \/ picker # NoValue
  /\ menu' \in (IF picker = NoValue THEN {NoValue} ELSE {menu, NoValue}) /\ picker' = NoValue
  /\ UNCHANGED <<saved, links, wires, key, form, clicks, broken, outdated>>

(* The mount of the view reads the links.  A key of the tree, or none.     *)
Visit(k) ==
  /\ Clicks /\ ~Blocked /\ k # key
  /\ key' = k
  /\ wires' = IF key = NoValue THEN wires \cup {Wire("fetch")}
              ELSE IF k = NoValue THEN Unmounted(wires) ELSE wires
  /\ UNCHANGED <<saved, links, menu, picker, form, broken, outdated>>
-----------------------------------------------------------------------------
(* New links, changed links, removed links. *)

NeedsSourceField(d) == d.source.kind # "redis" \/ d.extract = "value_field"
Invalid(d) ==
  \/ d.target.kind = NoValue \/ d.source.scope = <<>>
  \/ NeedsSourceField(d) /\ d.source.field = NoValue
  \/ d.source.kind = "redis" /\ d.extract = "key_capture" /\ Cardinality(Stars(d.source.scope)) # 1
  \/ d.target.kind = "redis" /\ Stars(d.target.scope) = {}
  \/ d.target.kind \in {"postgres", "kafka"} /\ NoValue \in {d.target.scope, d.target.field}

(* The server asks no less of a link before it keeps it. *)
ASSUME AcceptedAssumption == \A s \in StoredLinks : \A n \in DOMAIN s : ~Invalid(s[n])

(* The id of a new link is that of the request that made it. *)
Payload(d, id) ==
  [d EXCEPT !.id = id,
            !.source.field = IF NeedsSourceField(d) \/ d.extract = "selection" THEN @ ELSE NoValue]

(* From the header, or from the menu of an element, with its field.        *)
OpenForm ==
  /\ Clicks /\ key # NoValue /\ picker = NoValue /\ ~form.open
  /\ form' = [open |-> TRUE, saving |-> FALSE, field |-> IF menu = NoValue THEN NoValue ELSE menu.field]
  /\ menu' = NoValue
  /\ UNCHANGED <<saved, links, wires, key, picker, broken, outdated>>

CloseForm ==
  /\ form.open /\ form' = [form EXCEPT !.open = FALSE]
  /\ UNCHANGED <<saved, links, wires, key, menu, picker, clicks, broken, outdated>>

Sends(w) ==
  /\ wires' = wires \cup {w}
  /\ UNCHANGED <<saved, links, key, menu, picker, broken, outdated>>

HandleSave(d) ==
  /\ Clicks /\ form.open /\ ~form.saving /\ ~Invalid(d)
  /\ d.source.field \in {NoValue, form.field}
  /\ form' = [form EXCEPT !.saving = TRUE]
  /\ Sends([Wire("create") EXCEPT !.link = d])

(* On the settings page. *)
UpdateLink(l, d) ==
  /\ Clicks /\ key = NoValue /\ l \in Range(links) /\ ~Invalid(d)
  /\ Sends([Wire("update") EXCEPT !.link = [d EXCEPT !.id = l.id]])
  /\ UNCHANGED form
RemoveLink(l) ==
  /\ Clicks /\ key = NoValue /\ l \in Range(links)
  /\ Sends([Wire("remove") EXCEPT !.link = l])
  /\ UNCHANGED form
-----------------------------------------------------------------------------
(* Answers. *)

Changes == {"create", "update", "remove"}
Replaced(s, l) == [n \in DOMAIN s |-> IF s[n].id = l.id THEN l ELSE s[n]]
Without(s, l) == Filtered(s, {n \in DOMAIN s : s[n].id # l.id})

(* What a request makes of a list, on the server and in the store. *)
Changed(s, w) ==
  CASE w.kind = "create" -> Append(s, w.link)
    [] w.kind = "update" -> Replaced(s, w.link)
    [] w.kind = "remove" -> Without(s, w.link)

(* Mutant: a changed link is added to the store beside the old one. *)
AddedToStore(s, w) == IF w.kind = "remove" THEN Without(s, w.link) ELSE Append(s, w.link)
ChangedInStore(s, w) == Changed(s, w)

(* What was answered before a change knows nothing of it: a list, and the *)
(* answer to another change of the same link.                             *)
Late(v, w, link) == v.done /\ (v.kind = "fetch" \/ (v.kind \in Changes /\ v.link.id = link.id))

ServeLinks(w) ==
  /\ ~w.done
  /\ w.kind \in {"update", "remove"} => \E n \in DOMAIN saved : saved[n].id = w.link.id
  /\ LET link == IF w.kind = "create" THEN Payload(w.link, w.id) ELSE w.link
         missing(v) == IF w.kind \in Changes /\ Late(v, w, link)
                       THEN [v EXCEPT !.missed = @ \cup {w.id}] ELSE v IN
     /\ saved' = IF w.kind \in Changes THEN Changed(saved, [w EXCEPT !.link = link]) ELSE saved
     /\ \E found \in IF w.at = Here THEN {w.to \in Keys} ELSE BOOLEAN :
          wires' = {missing(v) : v \in wires \ {w}} \cup
            {[w EXCEPT !.done = TRUE, !.link = link,
                !.answer = CASE w.kind = "fetch" -> saved
                             [] w.kind = "type" /\ found -> w.to [] OTHER -> NoValue]}
  /\ UNCHANGED <<links, key, menu, picker, form, clicks, broken, outdated>>

FetchLands(w) ==
  /\ w.kind = "fetch" /\ w.done
  /\ links' = w.answer /\ outdated' = ~w.sound
  /\ wires' = wires \ {w}
  /\ UNCHANGED <<saved, key, menu, picker, form, clicks, broken>>

(* A change has landed that some answers on their way do not know of. *)
Spoils(w) ==
  {IF w.id \in v.missed THEN [v EXCEPT !.sound = FALSE] ELSE v : v \in wires \ {w}}

FormAfter(w) ==
  IF w.kind # "create" \/ ~w.dialog THEN form
  ELSE [form EXCEPT !.saving = FALSE, !.open = @ /\ broken' # broken]

ChangeLands(w) ==
  /\ w.kind \in Changes /\ w.done
  /\ links' = ChangedInStore(links, w)
  /\ wires' = Spoils(w) /\ outdated' = (outdated \/ ~w.sound)
  /\ UNCHANGED <<saved, key, menu, picker, clicks, broken>>
  /\ form' = FormAfter(w)

(* The key is opened wherever the user is by then: its page replaces the   *)
(* one on screen, its view is the one that is mounted.                     *)
TypeLands(w) ==
  /\ w.kind = "type" /\ w.done
  /\ key' = IF w.answer = NoValue THEN key ELSE IF w.at = Here THEN w.to ELSE NoValue
  /\ wires' = IF key' = NoValue THEN Unmounted(wires \ {w})
              ELSE (wires \ {w}) \cup
                   (IF key = NoValue THEN {[Wire("fetch") EXCEPT !.id = w.id]} ELSE {})
  /\ IF key' = NoValue THEN menu' = NoValue /\ picker' = NoValue /\ form' = [form EXCEPT !.open = FALSE]
     ELSE UNCHANGED <<menu, picker, form>>
  /\ UNCHANGED <<saved, links, clicks, broken, outdated>>

WireBreaks(w) ==
  /\ broken < MaxBroken /\ broken' = broken + 1
  /\ wires' = IF w.kind \in Changes /\ w.done THEN Spoils(w) ELSE wires \ {w}
  /\ outdated' = (outdated \/ (w.kind \in Changes /\ w.done))
  /\ form' = FormAfter(w)
  /\ UNCHANGED <<saved, links, key, menu, picker, clicks>>

(* A link that is gone already. *)
ChangeRefused(w) ==
  /\ w.kind \in {"update", "remove"} /\ ~w.done /\ \A n \in DOMAIN saved : saved[n].id # w.link.id
  /\ wires' = wires \ {w}
  /\ UNCHANGED <<saved, links, key, menu, picker, form, clicks, broken, outdated>>
-----------------------------------------------------------------------------
LinksInit ==
  /\ saved \in StoredLinks /\ links = saved
  /\ wires = {} /\ key \in Keys \cup {NoValue}
  /\ menu = NoValue /\ picker = NoValue
  /\ form = [open |-> FALSE, saving |-> FALSE, field |-> NoValue]
  /\ clicks = 0 /\ broken = 0 /\ outdated = FALSE

Followings ==
  \/ \E l \in Range(links) :
       \/ (\E g \in HeaderGroups : FollowFromHeader(g, l))
       \/ (\E g \in ElementGroups : FollowFromElement(g, l))
       \/ FollowFromPicker(l)
  \/ (key # NoValue /\ \E m \in Contents[key].elements, f \in DOMAIN Contents[key].fields \cup {NoValue} :
        \E token \in {m, NoValue} : OpenElementMenu(m, f, token))
  \/ (\E g \in PickerGroups : ShowAll(g)) \/ CloseMenus
  \/ \E k \in Keys \cup {NoValue} : Visit(k)
Editings ==
  \/ OpenForm \/ CloseForm \/ (\E d \in Drafts : HandleSave(d))
  \/ \E l \in Range(links) : RemoveLink(l) \/ \E d \in Drafts : UpdateLink(l, d)
WiresMove ==
  \E w \in wires :
    ServeLinks(w) \/ FetchLands(w) \/ ChangeLands(w) \/ TypeLands(w) \/ WireBreaks(w) \/ ChangeRefused(w)

LinksNext == Followings \/ Editings \/ WiresMove
LinksSpec == LinksInit /\ [][LinksNext]_linkVars
-----------------------------------------------------------------------------
(* Properties. *)

Plain(value) == \A i \in 1..(Len(value) - 1) : <<value[i], value[i + 1]>> # <<Dollar, Dollar>>

(* A key that is captured from leads back to itself: the key a link builds *)
(* from it matches the pattern of the other end, so that the link is among *)
(* the ways back there, and the value captured there builds the first key. *)
(* Left out: values with two dollars, which are taken for one, and symbols *)
(* that mean something after a dollar, which no key here has.              *)
ThereAndBack ==
  \A l \in Range(links), k \in Keys :
    LET value == ExtractRedisValue(l, k)
        built == BuildRedisKey(l.target.scope, value) IN
    (IsRedisEnd(l.source, k) /\ l.extract = "key_capture" /\ l.target.kind = "redis" /\ Plain(value)) =>
      /\ RedisKeyMatchesPattern(l.target.scope, built)
      /\ BuildRedisKey(l.source.scope, CaptureFromKey(l.target.scope, built)) = k

(* Once nothing is under way the store has the links the server has,       *)
(* whatever was saved, changed and removed at the same time.  Left out: a  *)
(* list that was read before a change and arrived after it, and a change   *)
(* whose answer was lost.                                                  *)
LinksShowTheServer ==
  ((\A w \in wires : w.kind = "type") /\ ~outdated) => Range(links) = Range(saved)
=============================================================================
