------------------------------ MODULE MCCc3000 ------------------------------
(* One command starts the chip (hw_net_initialize starts it twice, with    *)
(* settings in between); a call after that is one command, a report asks   *)
(* one question.                                                           *)
EXTENDS Cc3000

MCCalls == {"enable", "disable", "recv", "lookup"}

MCOps ==
  [c \in MCCalls \union {"report"} |->
     CASE c = "enable" -> <<"start">>
       [] c = "disable" -> <<>>
       [] c = "report" -> <<"ipconfig">>
       [] OTHER -> <<c>>]
=============================================================================
