-------------------------- MODULE EsperantoNamer --------------------------
(***************************************************************************)
(* lib/Metadata/EsperantoNamer.cpp: which device an instruction is for.    *)
(* Named metadata gives functions and classes a device, <<name, type>>;    *)
(* the users of a device function, their users and so on get it as "comp"  *)
(* metadata, calls of methods that of the class.  Then the devices of the  *)
(* calls are numbered.                                                     *)
(*                                                                         *)
(* A module M has functions (as for Namer), operands of instructions other *)
(* than what a call calls, constants with their operands, the metadata,    *)
(* the class in a function's name, and the classes of its variables.       *)
(* (remoteCallFunctionTable and the functions that fill it are not called; *)
(* classNameList is not read; both are left out.)                          *)
(***************************************************************************)
EXTENDS Naturals, Sequences, FiniteSets, SequencesExt, FiniteSetsExt, TLC

CONSTANT None

Instructions(M) ==
  UNION {UNION {{<<k, b, i>> : i \in DOMAIN M.functions[k].blocks[b]} :
                  b \in DOMAIN M.functions[k].blocks} : k \in DOMAIN M.functions}
Ins(M, p)   == M.functions[p[1]].blocks[p[2]][p[3]]
Values(M)   == Instructions(M) \cup DOMAIN M.constants
Fn(name)    == <<"fn", name>>     \* a function as an operand
Operands(M, v) ==
  IF v \in DOMAIN M.constants THEN M.constants[v]
  ELSE (IF v \in DOMAIN M.operands THEN M.operands[v] ELSE {})
       \cup (IF Ins(M, v).op = "call" THEN {Fn(Ins(M, v).callee)} ELSE {})
Users(M, x) == {v \in Values(M) : x \in Operands(M, v)}

\* The CallInsts in the order of the module.
Calls(M) ==
  FlattenSeq([k \in DOMAIN M.functions |->
    FlattenSeq([b \in DOMAIN M.functions[k].blocks |->
      SelectSeq([i \in DOMAIN M.functions[k].blocks[b] |-> <<k, b, i>>],
                LAMBDA p : Ins(M, p).op = "call")])])

-----------------------------------------------------------------------------
(***************************************************************************)
(* Platforms and devices.  defaultPlatform is a field nobody sets: any     *)
(* number, of which those above 2 have no string.                          *)
(***************************************************************************)
Platforms == <<"x86", "arm", "avr">>

getPlatform(type, defaultPlatform) ==
  IF Contains(Platforms, type) THEN (CHOOSE i \in 1 .. 3 : Platforms[i] = type) - 1
  ELSE defaultPlatform

getPlatformAsString(platform) == IF platform < 3 THEN Platforms[platform + 1] ELSE ""

Entries(list, device) == {i \in DOMAIN list : list[i].name = device[1]}

getOrInsertDeviceList(list, device, defaultPlatform) ==
  IF Entries(list, device) # {}
  THEN [list |-> list, dev |-> Min(Entries(list, device))]
  ELSE [list |-> Append(list, [name |-> device[1],
                               platform |-> getPlatform(device[2], defaultPlatform)]),
        dev |-> Len(list) + 1]

getDeviceInfo(M, name) == IF name \in DOMAIN M.metadata THEN M.metadata[name] ELSE None

-----------------------------------------------------------------------------
(***************************************************************************)
(* The users of a device function, in rounds: a value that was enrolled    *)
(* before, for this function or another, is not taken again, but for the   *)
(* direct users.                                                           *)
(***************************************************************************)
Walk(M, direct, checked) ==
  LET users == [v \in Values(M) |-> Users(M, v)]
      walk[i \in 0 .. Cardinality(Values(M)) + 1] ==
        IF i = 0 THEN [build |-> direct, checked |-> checked \cup direct, all |-> {}]
        ELSE LET w   == walk[i - 1]
                 new == (UNION {users[v] : v \in w.build}) \ w.checked
             IN  [build |-> new, checked |-> w.checked \cup new, all |-> w.all \cup w.build]
  IN  walk[Cardinality(Values(M)) + 1]

Give(M, st, walk, node) ==
  [st EXCEPT !.checked = walk.checked,
             !.comp = [v \in walk.all \cap Instructions(M) |-> node] @@ @]

\* Faulty: direct users that were enrolled before are not taken again.
checkCallInstsOnce(M, st, name, node) ==
  Give(M, st, Walk(M, Users(M, Fn(name)) \ st.checked, st.checked), node)

checkCallInsts(M, st, name, node) ==
  Give(M, st, Walk(M, Users(M, Fn(name)), st.checked), node)

\* Listed: the functions LoadNamer has an id for.
checkFunction(M, Listed, defaultPlatform) ==
  LET Check(st, f) ==
        LET info == getDeviceInfo(M, f.name)
            got  == getOrInsertDeviceList(st.list, info, defaultPlatform)
            dev  == got.list[got.dev]
        IN  IF f.name \notin Listed \/ info = None THEN st
            ELSE checkCallInsts(M, [st EXCEPT !.list = got.list], f.name,
                                <<dev.name, getPlatformAsString(dev.platform)>>)
  IN  FoldLeft(Check, [comp |-> <<>>, checked |-> {}, list |-> <<>>], M.functions)

-----------------------------------------------------------------------------
(***************************************************************************)
(* Methods.  M.class[f] is the class in f's name, the number in front of   *)
(* it (f may also be no method and have a number there by chance), and how *)
(* many characters of f's name follow the number, which has at most two    *)
(* digits.  Every digit adds the number that begins with it: 12 is read as *)
(* 12 * 10 + 2.  So a class name of ten or more characters comes out with  *)
(* characters behind it, or the end of f's name is passed.                 *)
(***************************************************************************)
classNameLength(number) == IF number < 10 THEN number ELSE number * 10 + (number % 10)

ReadsPastEnd(M, name) ==
  name \in DOMAIN M.class /\ classNameLength(M.class[name].length) > M.class[name].left

\* Behind the end of a name is a NUL, where getNamedMetadata stops: what it looks
\* for are the characters as many as read, or left.  A method's name goes on
\* behind that of its class, so with too many there is no such class.
getClassNameInFunction(M, name) ==
  IF name \notin DOMAIN M.class THEN None
  ELSE LET class == M.class[name]
           read  == IF ReadsPastEnd(M, name) THEN class.left ELSE classNameLength(class.length)
       IN  IF read = class.length THEN class.name ELSE "of no class"

\* A call that calls no function directly is a null pointer here.
NullCallee(M) == \E i \in DOMAIN Calls(M) : Ins(M, Calls(M)[i]).callee = None

\* StringRef's operator[] asserts that the index is inside.
PastEnd(M) == \E i \in DOMAIN Calls(M) : ReadsPastEnd(M, Ins(M, Calls(M)[i]).callee)

IsMethodCall(M, Listed, p) ==
  /\ Ins(M, p).callee \in Listed
  /\ getClassNameInFunction(M, Ins(M, p).callee) \in DOMAIN M.metadata

addMetadata(M, Listed, comp) ==
  [p \in {q \in ToSet(Calls(M)) : IsMethodCall(M, Listed, q)} |->
     M.metadata[getClassNameInFunction(M, Ins(M, p).callee)]] @@ comp

-----------------------------------------------------------------------------
(***************************************************************************)
(* Devices of calls, numbered from 1 in the order of the calls' addresses; *)
(* devices of variables' classes, numbered from 0 as they come.            *)
(***************************************************************************)
callMapOf(M, st, defaultPlatform) ==
  LET Enter(acc, p) ==
        LET got == getOrInsertDeviceList(acc.list, st.comp[p], defaultPlatform)
        IN  [list |-> got.list, callMap |-> (p :> got.dev) @@ acc.callMap]
  IN  FoldLeft(Enter, [list |-> st.list, callMap |-> <<>>],
               SelectSeq(Calls(M), LAMBDA p : p \in DOMAIN st.comp))

\* The calls' addresses may meet the devices in any order.
deviceIdMaps(callMap) ==
  LET devices == {callMap[p] : p \in DOMAIN callMap}
  IN  {ids \in [devices -> 1 .. Cardinality(devices)] :
         \A d, e \in devices : ids[d] = ids[e] => d = e}

printSpecs(M) ==
  FoldLeft(LAMBDA map, class :
             LET device == M.metadata[class][1]
             IN  IF device \in DOMAIN map THEN map
                 ELSE (device :> Cardinality(DOMAIN map)) @@ map,
           <<>>, M.variables)

\* Of a call that has a device; for others an assertion fails.
getIdCount(result, call) == result.deviceIdMap[result.callMap[call]]

runOnModule(M, Listed, defaultPlatform) ==
  LET checked == checkFunction(M, Listed, defaultPlatform)
      st      == [checked EXCEPT !.comp = addMetadata(M, Listed, @)]
      maps    == callMapOf(M, st, defaultPlatform)
  IN  {[comp |-> st.comp, list |-> maps.list, callMap |-> maps.callMap,
        deviceIdMap |-> ids, deviceMap |-> printSpecs(M)] : ids \in deviceIdMaps(maps.callMap)}
=============================================================================
