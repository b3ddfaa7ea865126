---------------------------- MODULE GenericFactory ----------------------------
(***************************************************************************)
(* GenericFactory: a map from the name of a type to the creator that was   *)
(* registered for it last.  A creator makes objects of a class, and is     *)
(* found only under the argument types it was registered with.             *)
(***************************************************************************)
Creator(class, args) == [class |-> class, args |-> args]

(* registerType, by insert(): erase, then emplace; registerDefaultType.    *)
RegisterType(types, key, creator) ==
  [k \in DOMAIN types \cup {key} |-> IF k = key THEN creator ELSE types[k]]

RegisterDefaultType(types, key, args) == RegisterType(types, key, Creator(key, args))

(* create() throws "Type does not registered", or std::bad_any_cast.       *)
CreateThrows(types, key, args) ==
  key \notin DOMAIN types \/ types[key].args # args
=============================================================================
