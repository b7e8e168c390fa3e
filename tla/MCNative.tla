------------------------------ MODULE MCNative ------------------------------
(***************************************************************************)
(* A small instance: a user thread in each of two address spaces, the boot *)
(* thread and one more kernel thread.  u1 loops over an access and a system*)
(* call, u2 reads the page that u1 writes and then goes wrong; the kernel  *)
(* threads: boot enables interrupts and yields, k runs through cli, sti    *)
(* and a library.                                                          *)
(***************************************************************************)
EXTENDS Native

Do(kind)     == [kind |-> kind]
At(kind, va) == [kind |-> kind, va |-> va]

MCCode(t) ==
  CASE t = "boot" -> <<Do("sti"), Do("YIELD")>>
    [] t = "k"    -> <<Do("cli"), Do("sti"), Do("ret"), Do("lib")>>
    [] t = "u1"   -> <<At("store", "va"), Do("SYSCALL")>>
    [] t = "u2"   -> <<At("load", "va"), Do("wild")>>

MCPage(w) == [pa |-> "pa", w |-> w]

(* as1 has two pages, one of which may also be mapped for reading only.    *)
MCMaps ==
  {<<"as1", "va", MCPage(TRUE)>>, <<"as1", "va", MCPage(FALSE)>>,
   <<"as1", "vb", MCPage(TRUE)>>, <<"as2", "va", MCPage(TRUE)>>}

MCAsOf(t) == IF t = "u1" THEN "as1" ELSE "as2"
=============================================================================
