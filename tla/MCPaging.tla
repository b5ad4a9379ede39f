------------------------------ MODULE MCPaging ------------------------------
EXTENDS Paging

(* Index 0 of the root is the lower half, 1 the kernel's, 2 the fractal.   *)
MCRanges ==
    { << <<0, 0, 0>> >>, << <<1, 0, 1>> >>,
      << <<1, 0, 0>>, <<1, 0, 1>> >> }

(* What the slab asks for, what user stacks ask for, what is refused.      *)
MCAttributes ==
    { {"Writable", "No_Execute"}, {"User_Access"}, {"Writable"} }
=============================================================================
