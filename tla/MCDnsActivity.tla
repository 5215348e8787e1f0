----------------------------- MODULE MCDnsActivity -----------------------------
(* A small instance of DnsActivity with the two containers of the compose file. *)
EXTENDS DnsActivity

Services == <<"wireguard", "openvpn-dns">>
================================================================================
