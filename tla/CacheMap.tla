------------------------------- MODULE CacheMap -------------------------------
(***************************************************************************)
(* The data of the cache manifest (internal/0/manifest): maps from cache   *)
(* keys to entries and the edits callers ask for.                          *)
(***************************************************************************)
CONSTANTS Key,      \* the logical cache keys
          Entry,    \* the entries a key may be mapped to
          Missing   \* stands for "no entry"

ASSUME MissingAssumption == Missing \notin Entry

Map == [Key -> Entry \cup {Missing}]

Empty == [k \in Key |-> Missing]

(* What Record and RecordBatch (entries for a non-empty set of keys) and   *)
(* Delete (the removal of one key) ask for.                                *)
Edit == (UNION {[ks -> Entry] : ks \in (SUBSET Key) \ {{}}})
          \cup {[k \in {key} |-> Missing] : key \in Key}

NoEdit == [k \in {} |-> Missing]

(* m.entries[k] = e for each entry of a batch, delete(m.entries, k).       *)
Apply(m, e) == [k \in Key |-> IF k \in DOMAIN e THEN e[k] ELSE m[k]]
=============================================================================
