------------------------------ MODULE MCDelivery ------------------------------
(* A small instance of admission, authentication and delivery. *)
EXTENDS Delivery

U64Max == 2 * TwoTo63 - 1

V(txt, form) == [txt |-> txt, form |-> form, num |-> -1]
Num(txt, n)  == [txt |-> txt, form |-> "odd", num |-> n]

Msg(id, author, kind, t, tags, delegations) ==
  [id |-> id, pubkey |-> Lower(author), kind |-> kind, created_at |-> t, tags |-> tags,
   delegations |-> delegations, valid |-> TRUE]

Cond(field, op, values) == [field |-> field, operator |-> op, values |-> values]
Delegation(by, to, conds) ==
  [delegator |-> Lower(by), conds |-> conds, sig |-> [by |-> by, to |-> Lower(to), conds |-> conds]]

\* Gift wraps for bob, in proper form, in upper case and expiring; a deletion of
\* the first; a text note with tags; a note that bob may write for alice, within
\* and against the conditions of the delegation; and one with a broken signature.
wrap    == Msg("wrap", "alice", 1059, 1, <<<<"p", Lower("bob")>>>>, << >>)
shout   == Msg("shout", "alice", 1059, 1, <<<<"p", V("bob", "upper")>>>>, << >>)
fading  == Msg("fading", "alice", 1059, 1, <<<<"p", Lower("bob")>>, <<"expiration", Num("1", 1)>>>>, << >>)
erase   == Msg("erase", "alice", 5, 1, <<<<"e", Lower("wrap")>>, <<"e", Lower("note")>>>>, << >>)
note    == Msg("note", "alice", 1, 1, <<<<"t", V("x", "plain")>>, <<"p", Lower("bob")>>, <<"t", V("y", "odd")>>, <<"t">>>>, << >>)

NoteConds == <<Cond("kind", "!", <<3, 7>>), Cond("created_at", "<", <<2>>)>>
within  == Msg("within", "bob", 14, 1, << >>, <<Delegation("alice", "bob", NoteConds)>>)
against == Msg("against", "bob", 7, 1, << >>, <<Delegation("alice", "bob", NoteConds)>>)
broken  == Msg("broken", "bob", 14, 1, << >>,
             <<[delegator |-> Lower("alice"), conds |-> << >>, sig |-> MalformedSig]>>)
\* A chat message of alice whose event spells her key in upper case.
loud    == [Msg("loud", "alice", 14, 1, << >>, << >>) EXCEPT !.pubkey.form = "upper"]
ping    == Msg("ping", "bob", 24133, 1, <<<<"p", Lower("alice")>>>>, << >>)

AllMessages == {wrap, shout, fading, erase, note, within, against, broken, loud, ping}

AuthEvent(k, c, host) ==
  [pubkey |-> Lower(k), challenge |-> {c}, relay |-> {host}, created_at |-> 0, kind |-> 22242,
   valid |-> TRUE]

F(ids, authors, kinds, since, until, limit, tags) ==
  [ids |-> ids, authors |-> authors, kinds |-> kinds, since |-> since, until |-> until,
   limit |-> limit, tags |-> tags]

\* What the wallet asks for; alice's events until now, by author and by tag; ids
\* and authors by prefix with odd and empty tag sets; the latest event, until a time
\* that is -1 as i64.
ForBob  == F({}, {}, {{1059}}, {}, {}, {}, {[p |-> [op |-> "or", vals |-> {Lower("bob")}]]})
OfAlice == F({}, {{Lower("alice")}}, {}, {1}, {1}, {}, {})
Tagged  == F({}, {}, {}, {}, {}, {},
             {[p |-> [op |-> "or", vals |-> {Lower("bob"), V("bob", "upper")}],
               t |-> [op |-> "and", vals |-> {V("x", "plain")}]]})
Loose   == F({{V("note", "prefix")}}, {{V("alice", "upper")}}, {}, {}, {}, {},
             {[t |-> [op |-> "or", vals |-> {V("y", "odd")}], x |-> [op |-> "and", vals |-> {}]]})
Newest  == F({}, {}, {}, {}, {U64Max}, {1}, {})
LiveOnly == F({}, {}, {{14, 24133, 1059}}, {}, {}, {0}, {})

AllRequests == {<<ForBob>>, <<OfAlice, OfAlice, Tagged>>, <<Newest, Loose>>, <<LiveOnly>>}

Config(nip42, dms, need, url, kinds, authors, white, pay, future, scrapers) ==
  [nip42_auth |-> nip42, nip42_dms |-> dms, require_auth_to_write |-> need,
   relay_url |-> url, event_kind_allowlist |-> kinds, public_note_authors |-> authors,
   pubkey_whitelist |-> white, pay_to_relay |-> pay, reject_future_seconds |-> future,
   limit_scrapers |-> scrapers]

\* Every gate closed; an open relay; DMs gated on a relay that cannot authenticate.
Strict == Config(TRUE, TRUE, TRUE, {"relay"}, {}, {"alice"}, {}, FALSE, {1}, TRUE)
Open   == Config(FALSE, FALSE, FALSE, {"relay"}, {{1, 5, 1059}}, {"alice"}, {{Lower("alice"), Lower("bob")}}, FALSE, {}, FALSE)
Mute   == Config(TRUE, TRUE, FALSE, {}, {}, {}, {{Lower("alice")}}, TRUE, {}, FALSE)
AllConfigs == {Strict, Open, Mute}

AllKeys == {Lower(k) : k \in {"alice", "bob", "carol"}}

CONSTANTS c1, c2
AllAuthEvents ==
  {AuthEvent("alice", c1, "relay"), AuthEvent("bob", c2, "relay"),
   AuthEvent("carol", c2, "relay"), AuthEvent("bob", c2, "elsewhere")}
===============================================================================
