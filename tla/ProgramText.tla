----------------------------- MODULE ProgramText -----------------------------
(* Short forms for writing EQueue programs down in the MC modules.          *)
EXTENDS IdMap

NoBandwidth == [c \in {} |-> 1]

Create(b) == Op("create", b)

Components(b, fields) == [Op("create_comp", b) EXCEPT !.comps = fields]
AddComponents(b, comp, fields) ==
  [Op("add_comp", b) EXCEPT !.handle = comp, !.comps = fields]
Field(comp_name, op) == [name |-> comp_name, op |-> op]
GetComponent(b, comp, comp_name) ==
  [Op("get_comp", b) EXCEPT !.handle = comp, !.name = comp_name]

(* A vector of a component, and the element of a vector at an index. *)
Splat(b, op, shape) == [Op("splat", b) EXCEPT !.handle = op, !.shape = shape]
Extract(b, vector, index) == [Op("extract", b) EXCEPT !.handle = vector, !.index = index]

Start(b)        == [Op("control_start", b) EXCEPT !.nres = 1]
And(b, signals) == [Op("control_and", b) EXCEPT !.ins = signals, !.nres = 1]
Or(b, signals)  == [Op("control_or", b) EXCEPT !.ins = signals, !.nres = 1]
Await(b, signals) == [Op("await", b) EXCEPT !.ins = signals]

(* A launch that passes signals in and returns n signals beside its own. *)
LaunchWith(b, device, start, signals, n) ==
  [Op("launch", b) EXCEPT !.handle = device, !.ins = <<start>> \o signals,
                          !.nargs = Len(signals), !.nres = n + 1]
Launch(b, device, start) == LaunchWith(b, device, start, <<>>, 0)
Return(b, signals) == [Op("return", b) EXCEPT !.ins = signals]

(* A copy over a DMA engine, whose schedule is the bank of that name. *)
Copy(b, device, start, engine, n) ==
  [Op("memcpy", b) EXCEPT !.handle = device, !.ins = <<start>>, !.nres = 1,
                          !.bank = engine, !.cycles = n]

(* A loop of n iterations that carries signals. *)
For(b, n, signals) ==
  [Op("for", b) EXCEPT !.ub = n, !.ins = signals, !.nres = Len(signals),
                       !.nargs = Len(signals)]
Yield(b, signals) == [Op("yield", b) EXCEPT !.ins = signals]

Access(what, b, memory, n, connection, bits) ==
  [Op(what, b) EXCEPT !.bank = memory, !.cycles = n, !.con = connection, !.vol = bits]

Other(b) == Op("other", b)
Free(b)  == Op("free", b)

(* The tables of the n-th program. *)
Numbered(n, program) == [Tables(program) EXCEPT !.id = n]
=============================================================================
