------------------------------- MODULE Roster -------------------------------
(***************************************************************************)
(* The cards peers publish on a share's mesh and the roster read from them:*)
(* agent-share-proto/src/client.rs and roster.rs.  The meta document maps  *)
(* nicknames to card values; a card value leaves out what its author does  *)
(* not know.  Both clients, native and browser, read the same roster.      *)
(***************************************************************************)
EXTENDS Naturals, FiniteSets

\* The fields a card value may have; what the peer runs (app, version,
\* runtime, the label made of them) is only ever displayed and is left out.
CardFields == {"endpoint", "transport", "role", "tree", "serving", "holding"}

\* What a reader makes of a field that is missing.
Unknown(field) ==
    CASE field = "transport" -> "" [] field = "role" -> "none"
      [] field = "tree" -> 0 [] field = "serving" -> FALSE
      [] field = "holding" -> "unknown"

ToCardValue(card) ==
    [field \in {f \in CardFields : f = "endpoint" \/ card[f] # Unknown(f)} |-> card[field]]

\* No card without an endpoint; every other field has its reading.
IsCardValue(value) == "endpoint" \in DOMAIN value

FromCardValue(value) ==
    [f \in CardFields |-> IF f \in DOMAIN value THEN value[f] ELSE Unknown(f)]

\* A card that says nothing of holding is judged by its slots: it is an older
\* peer's, and not a peer that holds nothing.
HoldsSomething(card) ==
    IF card.holding = "unknown" THEN card.serving ELSE card.holding = "yes"

\* doc maps the nicknames it has an entry for to card values.
EntriesFromMeta(doc) ==
    {[nickname |-> n, card |-> FromCardValue(doc[n])] : n \in {m \in DOMAIN doc : IsCardValue(doc[m])}}

\* One card per endpoint, of the least of its nicknames that is live.
LiveCards(entries, live) ==
    LET here == {e \in entries : e.nickname \in live}
    IN  {e.card : e \in {e \in here : \A other \in here :
            other.card.endpoint = e.card.endpoint => e.nickname <= other.nickname}}

NewRoster == [entries |-> {}, present |-> {}]
Present(roster) == LiveCards(roster.entries, roster.present)
All(roster) == {e.card : e \in roster.entries}
=============================================================================
