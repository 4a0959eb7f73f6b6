------------------------------ MODULE MCBuckets ------------------------------
(* A small instance of Buckets for TLC: an owner, a colleague of the same
   domain and a tagged guest without an address. *)
EXTENDS Buckets, TLC

Person(uid, email, domain, tags) == [uid |-> uid, email |-> email, domain |-> domain, tags |-> tags]
Owner == Person("owner", "o@corp", "corp", {})
Guest == Person("guest", "", "", {"audit"})
MCUsers == {Owner, Guest}

Control(type, tags) == [type |-> type, domain |-> None, emails |-> {}, tags |-> tags]
MCControls ==
  {Control("private", {}), Control("tagged", {"audit"}), Control("team", {"audit"})}

MCBucketIds == {"b1"}
MCFolderIds == {"f1"}
MCRefs == {<<"b1", "f1">>}
ThreadSymmetry == Permutations(Threads)
=============================================================================
