------------------------------- MODULE Admission -------------------------------
(***************************************************************************)
(* Event admission: the policies that every published event passes before   *)
(* it is queued for the database writer.  settings is a record              *)
(*   [nip42_auth, nip42_dms, require_auth_to_write, relay_url,              *)
(*    event_kind_allowlist, public_note_authors, pubkey_whitelist,          *)
(*    pay_to_relay, reject_future_seconds, limit_scrapers]                  *)
(* where Options are sets with at most one element.                        *)
(***************************************************************************)
EXTENDS Filters

DEFAULT_ALLOWED_KINDS ==
  {0, 1, 3, 5, 7, 13, 14, 16, 17, 1059, 1111, 10000, 10002, 10050, 24133, 24140,
   27235, 30000, 30003, 30023, 30078, 30402, 30405, 30406, 31990}

LOCKED_KINDS   == {1, 30023}
GIFT_WRAP_KIND == 1059

KindWhitelist(settings, e) ==
  IF settings.event_kind_allowlist = {} THEN e.kind \in DEFAULT_ALLOWED_KINDS
  ELSE \E ks \in settings.event_kind_allowlist : e.kind \in ks

\* Mutant: hex in either case names a recipient.
GiftWrapRetention_anyCase(e) ==
  e.kind = GIFT_WRAP_KIND =>
    /\ ~HasTag(e, "expiration")
    /\ \E v \in TagVals(e, "p") : v.form \in {"lower", "upper"}
    /\ Len(e.tags) + Len(e.delegations) = 1

\* No expiration tag, one "p" tag whose value is 64 lower-case hex digits (a text
\* that stands for a key is whole in the forms "lower" and "upper"), and no other
\* tag.
GiftWrapRetention(e) ==
  e.kind = GIFT_WRAP_KIND =>
    /\ ~HasTag(e, "expiration")
    /\ LET ps == tag_values_by_name(e, "p")
       IN  \E i \in DOMAIN ps : DOMAIN ps = {i} /\ ps[i].form = "lower"
    /\ Len(e.tags) + Len(e.delegations) = 1

\* event.pubkey.to_lowercase() is compared: the key, however it is spelt.
RestrictedKindAuthors(settings, e) ==
  e.kind \in LOCKED_KINDS => e.author \in settings.public_note_authors

\* Installed with NIP-42 only.
RequireAuth(settings, authed) ==
  settings.nip42_auth /\ settings.require_auth_to_write => authed # {}

\* Installed on free relays only; the whitelist holds texts, and texts compare.
PubkeyWhitelist(settings, e) ==
  ~settings.pay_to_relay => \A ks \in settings.pubkey_whitelist : e.pubkey \in ks

\* Admission::check; authed is the connection's auth_pubkey(), an Option.
Admits(settings, e, authed) ==
  /\ KindWhitelist(settings, e)
  /\ GiftWrapRetention(e)
  /\ RestrictedKindAuthors(settings, e)
  /\ RequireAuth(settings, authed)
  /\ PubkeyWhitelist(settings, e)

===============================================================================
