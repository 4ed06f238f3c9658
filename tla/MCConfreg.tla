------------------------------- MODULE MCConfreg -------------------------------
(* Programs that store bytes, numbers in and out of order, and words.      *)
EXTENDS Confreg

RunStores ==
  ({"UART_TXD", "VIRTUAL_UART"} \X {<<0, 1>>, <<1, 2>>})
  \cup ({"NUM"} \X {<<1, 1>>, <<2, 2>>, <<1, 2>>})
  \cup {<<"LED", <<1, 1>>>>, <<"IO_SIMU", <<1, 2>>>>, <<"NUM_MONITOR", <<0, 0>>>>,
        <<"SIMU_FLAG", <<0, 0>>>>, <<"UNKNOWN", <<1, 1>>>>}
===============================================================================
