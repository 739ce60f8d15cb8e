---------------------------- MODULE MailboxStore ----------------------------
(***************************************************************************)
(* The object store as the tunnel uses it: a flat map from keys to objects *)
(* with atomic PUT, GET and HEAD of one key.  A store is a function whose  *)
(* domain is the set of keys that exist; the tests' store                  *)
(* (internal/objectstore/memory) is this map behind a mutex, and S3 gives  *)
(* the same read-after-write guarantee for one key.                        *)
(***************************************************************************)

(* No object exists yet. *)
EmptyStore == [k \in {} |-> {}]

(* PutObject creates the key or overwrites what it held. *)
PutObject(store, key, value) ==
    [k \in (DOMAIN store) \cup {key} |-> IF k = key THEN value ELSE store[k]]

(* GetObject and HeadObject answer ErrNotFound exactly when this is false. *)
HasObject(store, key) == key \in DOMAIN store
=============================================================================
