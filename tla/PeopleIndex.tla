------------------------------ MODULE PeopleIndex -----------------------------
(***************************************************************************)
(* The unified people index: cards change under their scopes' leases, each *)
(* change bumps one generation, and whoever changed them rebuilds the      *)
(* index from the cards and the index read before, replacing it only if    *)
(* the generation is still the one read.  A card is a number, in the order *)
(* of source ids, and its value the set of emails that link it to others;  *)
(* a person is the id its cards carry in the index.                        *)
(***************************************************************************)
EXTENDS Naturals, FiniteSets, FiniteSetsExt

CONSTANTS
  CardCount,        \* how many cards there may be
  Owner,            \* the account of each
  Emails,
  Rebuilders,       \* passes, writes and forgets that rebuild
  MaxRebuilds,      \* MAX_PEOPLE_REBUILDS
  MaxCardChanges    \* bound: changes of cards

Cards == 1..CardCount

ASSUME PeopleIndexAssumption ==
  /\ CardCount \in Nat /\ MaxRebuilds \in Nat /\ MaxCardChanges \in Nat
  /\ DOMAIN Owner = Cards

VARIABLES
  cards,        \* the live cards' emails: a set of one email set each, empty for none
  generation,
  people,       \* each card's person, 0 for none
  aliases,      \* where each retired person id went
  nextId,
  rebuild,      \* the rebuilds under way
  owed          \* history: a rebuild failed or died, or the index was dropped

peopleVars == <<cards, generation, people, aliases, nextId, rebuild, owed>>

-------------------------------------------------------------------------------
(* rebuild_people *)

LiveIn(cs) == {c \in Cards : cs[c] # {}}

Shares(cs, c, d) == (UNION cs[c]) \cap (UNION cs[d]) # {}

\* Sets of live cards that share no email with a card outside.
Closed(cs) ==
  {S \in SUBSET LiveIn(cs) : \A c \in S : \A d \in LiveIn(cs) \ S : ~Shares(cs, c, d)}

\* The cards that share emails with c, directly or through others.
Linked(cs, c) == {d \in LiveIn(cs) : \A S \in Closed(cs) : c \in S => d \in S}

Components(cs) == {Linked(cs, c) : c \in LiveIn(cs)}

\* The ids the cards of a group had.
Prior(prev, g) == {prev.people[c] : c \in g} \ {0}

\* An id belongs to the first group that had it.
Kept(groups, prev, g) ==
  {i \in Prior(prev, g) : \A h \in groups : i \in Prior(prev, h) => Min(g) <= Min(h)}

Minted(groups, prev) == {g \in groups : Kept(groups, prev, g) = {}}

FirstNew(prev) == Max({prev.nextId} \cup {prev.people[c] + 1 : c \in Cards})

\* A person keeps the oldest of its ids; one that has none gets a new one, in order.
IdOf(groups, prev, g) ==
  IF Kept(groups, prev, g) # {} THEN Min(Kept(groups, prev, g))
  ELSE FirstNew(prev) + Cardinality({h \in Minted(groups, prev) : Min(h) < Min(g)})

PersonOf(groups, prev, c) == IdOf(groups, prev, CHOOSE g \in groups : c \in g)

\* The ids given up for an older one, and the ones they lead to.
Retired(groups, prev) ==
  UNION {Kept(groups, prev, g) \ {IdOf(groups, prev, g)} : g \in groups}

Moved(groups, prev) ==
  [i \in Retired(groups, prev) \cup DOMAIN prev.aliases |->
     IF i \in Retired(groups, prev)
       THEN IdOf(groups, prev, CHOOSE g \in groups : i \in Kept(groups, prev, g))
       ELSE prev.aliases[i]]

\* No alias leads to an alias.
Flattened(moved) ==
  [i \in DOMAIN moved |-> IF moved[i] \in DOMAIN moved THEN moved[moved[i]] ELSE moved[i]]

Rebuilt(cs, prev) ==
  LET groups == Components(cs)
      moved == Moved(groups, prev)
  IN  [people |-> [c \in Cards |-> IF c \in LiveIn(cs) THEN PersonOf(groups, prev, c) ELSE 0],
       aliases |-> Flattened(moved),
       nextId |-> FirstNew(prev) + Cardinality(Minted(groups, prev))]

-------------------------------------------------------------------------------
(* rebuild_people_index *)

NoRebuild == [stage |-> "idle", retries |-> 0, generation |-> 0, cards |-> <<>>,
            previous |-> <<>>]

Starting == [NoRebuild EXCEPT !.stage = "sources"]

\* A pass or a write applies cards under its lease, and rebuilds.
ApplyCards(w) ==
  /\ rebuild[w].stage = "idle" /\ generation < MaxCardChanges
  /\ \E c \in Cards, emails \in {{}} \cup {{E} : E \in SUBSET Emails} :
       cards' = [cards EXCEPT ![c] = emails]
  /\ generation' = generation + 1
  /\ rebuild' = [rebuild EXCEPT ![w] = Starting]
  /\ UNCHANGED <<people, aliases, nextId, owed>>

WithoutAccount(account) == [c \in Cards |-> IF Owner[c] = account THEN {} ELSE cards[c]]

\* purge_domain, then the rebuild.
ForgetContacts(w) ==
  /\ rebuild[w].stage = "idle" /\ generation < MaxCardChanges
  /\ \E c \in Cards : cards' = WithoutAccount(Owner[c])
  /\ generation' = generation + 1
  /\ rebuild' = [rebuild EXCEPT ![w] = Starting]
  /\ UNCHANGED <<people, aliases, nextId, owed>>

NoPeople == [c \in Cards |-> 0]
NoAliases == <<>>

\* purge_account: the index goes with the account, and the next rebuild fills it.
ForgetPeople ==
  /\ generation < MaxCardChanges
  /\ \E c \in Cards : cards' = WithoutAccount(Owner[c])
  /\ generation' = generation + 1
  /\ people' = NoPeople /\ aliases' = NoAliases
  /\ owed' = TRUE
  /\ UNCHANGED <<nextId, rebuild>>

ReadSources(w) ==
  /\ rebuild[w].stage = "sources"
  /\ rebuild' = [rebuild EXCEPT ![w].stage = "people", ![w].generation = generation,
                                ![w].cards = cards]
  /\ UNCHANGED <<cards, generation, people, aliases, nextId, owed>>

ReadPeople(w) ==
  /\ rebuild[w].stage = "people"
  /\ rebuild' = [rebuild EXCEPT ![w].stage = "replace",
                   ![w].previous = [people |-> people, aliases |-> aliases, nextId |-> nextId]]
  /\ UNCHANGED <<cards, generation, people, aliases, nextId, owed>>

\* Mutant of Unmoved: the index is replaced whatever happened meanwhile.
UnmovedAnyway(r) == TRUE

\* The compare of replace_people.
Unmoved(r) == r.generation = generation

ReplacePeople(w) ==
  LET r == rebuild[w]
      new == Rebuilt(r.cards, r.previous)
  IN  /\ r.stage = "replace"
      /\ IF Unmoved(r)
           THEN /\ people' = new.people /\ aliases' = new.aliases /\ nextId' = new.nextId
                /\ rebuild' = [rebuild EXCEPT ![w] = NoRebuild]
                /\ owed' = FALSE
           ELSE /\ UNCHANGED <<people, aliases, nextId>>
                /\ IF r.retries < MaxRebuilds
                     THEN /\ rebuild' = [rebuild EXCEPT ![w] =
                                           [Starting EXCEPT !.retries = r.retries + 1]]
                          /\ UNCHANGED owed
                     ELSE rebuild' = [rebuild EXCEPT ![w] = NoRebuild] /\ owed' = TRUE
      /\ UNCHANGED <<cards, generation>>

RebuildDies(w) ==
  /\ rebuild[w].stage # "idle"
  /\ rebuild' = [rebuild EXCEPT ![w] = NoRebuild]
  /\ owed' = TRUE
  /\ UNCHANGED <<cards, generation, people, aliases, nextId>>

-------------------------------------------------------------------------------

PeopleInit ==
  /\ cards = [c \in Cards |-> {}]
  /\ generation = 0
  /\ people = NoPeople /\ aliases = NoAliases /\ nextId = 1
  /\ rebuild = [w \in Rebuilders |-> NoRebuild]
  /\ owed = FALSE

PeopleNext ==
  \/ ForgetPeople
  \/ \E w \in Rebuilders :
       \/ ApplyCards(w) \/ ForgetContacts(w)
       \/ ReadSources(w) \/ ReadPeople(w) \/ ReplacePeople(w) \/ RebuildDies(w)

PeopleSpec == PeopleInit /\ [][PeopleNext]_peopleVars

-------------------------------------------------------------------------------

Listed(i) == {c \in Cards : people[c] = i}

\* Once every rebuild has come through, the index lists exactly the live cards,
\* grouped as they are by now, whatever rebuilds overtook one another; an id that was
\* retired, or has yet to be minted, is nobody's; and an alias leads straight to an id
\* that was minted and is no alias.
PeopleCurrent ==
  /\ (~owed /\ \A w \in Rebuilders : rebuild[w].stage = "idle") =>
       {Listed(people[c]) : c \in {d \in Cards : people[d] # 0}} = Components(cards)
  /\ \A c \in Cards : people[c] # 0 => people[c] < nextId /\ people[c] \notin DOMAIN aliases
  /\ \A i \in DOMAIN aliases : aliases[i] < nextId /\ aliases[i] \notin DOMAIN aliases
===============================================================================
